---- MODULE Spec2Model ----
(***************************************************************************)
(* Model of mlc_chat.ChatModule (python/mlc_chat/chat_module.py) and the   *)
(* stream_to_stdout callback (python/mlc_chat/callback.py).                *)
(*                                                                         *)
(*   Spec           ChatModule.generate driven against a mock backend that *)
(*                  records every call made to it and to the callback.     *)
(*   SpecReconcile  the delta computation of generate (lines 609-615) and  *)
(*                  _first_idx_mismatch as pure functions of two byte      *)
(*                  strings.                                               *)
(*   SpecMerge      _get_chat_config as a pure function of the config      *)
(*                  document and the user's partial ChatConfig.            *)
(*                                                                         *)
(* A Python str is a sequence of code points, a bytes object a sequence of *)
(* integers in 0..255.                                                     *)
(***************************************************************************)
EXTENDS Integers, Sequences, FiniteSets, TLC

(***************************************************************************)
(* Bounds                                                                  *)
(***************************************************************************)
\* largest number of decode steps the mock backend takes before it stops
MaxSteps == 4
\* largest callback interval tried
MaxInterval == 3
\* longest byte string enumerated as an input of the reconciler
MaxLen == 3

(***************************************************************************)
(* Strings and bytes                                                       *)
(***************************************************************************)
Min(a, b) == IF a <= b THEN a ELSE b

\* str.encode("utf-8") of one code point
Utf8EncodeChar(c) ==
    IF c < 128 THEN <<c>>
    ELSE IF c < 2048 THEN <<192 + (c \div 64), 128 + (c % 64)>>
    ELSE IF c < 65536 THEN <<224 + (c \div 4096), 128 + ((c \div 64) % 64), 128 + (c % 64)>>
    ELSE <<240 + (c \div 262144), 128 + ((c \div 4096) % 64),
           128 + ((c \div 64) % 64), 128 + (c % 64)>>

RECURSIVE Utf8Encode(_)
\* str.encode("utf-8"): the concatenation of the encodings of the code points
Utf8Encode(s) ==
    IF s = <<>> THEN <<>> ELSE Utf8EncodeChar(Head(s)) \o Utf8Encode(Tail(s))

\* the str literals used below, as code points
StrEmpty == <<>>
StrHi == <<72, 105>>
StrHiBang == <<72, 105, 33>>
StrHe == <<72, 233>>
StrCafe == <<99, 97, 102, 233>>
StrCaffe == <<99, 97, 102, 102, 101>>

RECURSIVE MismatchScan(_, _, _)
\* the for loop of _first_idx_mismatch over zip(str1, str2), from 1-based
\* position k; the result is the 0-based index Python returns
MismatchScan(str1, str2, k) ==
    IF k > Min(Len(str1), Len(str2)) THEN Min(Len(str1), Len(str2))
    ELSE IF str1[k] # str2[k] THEN k - 1
    ELSE MismatchScan(str1, str2, k + 1)

RECURSIVE MismatchScan_offByOne(_, _, _)
MismatchScan_offByOne(str1, str2, k) ==
    IF k > Min(Len(str1), Len(str2)) THEN Min(Len(str1), Len(str2))
    ELSE IF str1[k] # str2[k] THEN k
    ELSE MismatchScan_offByOne(str1, str2, k + 1)

\* mutant: reports the position after the first mismatch
FirstIdxMismatch_offByOne(str1, str2) == MismatchScan_offByOne(str1, str2, 1)

\* mutant: falls back to the length of the second string
FirstIdxMismatch_lenSecond(str1, str2) ==
    IF MismatchScan(str1, str2, 1) = Min(Len(str1), Len(str2))
       /\ SubSeq(str1, 1, Min(Len(str1), Len(str2))) = SubSeq(str2, 1, Min(Len(str1), Len(str2)))
    THEN Len(str2)
    ELSE MismatchScan(str1, str2, 1)

\* _first_idx_mismatch(str1, str2)
FirstIdxMismatch(str1, str2) == MismatchScan(str1, str2, 1)

\* the str "\b \b"
EraseStr == <<8, 32, 8>>

RECURSIVE EraseLoop(_, _)
\* for _ in range(pos, len(cur_utf8_chars)): print_msg += "\b \b"
EraseLoop(pos, n) ==
    IF pos >= n THEN <<>> ELSE EraseStr \o EraseLoop(pos + 1, n)

RECURSIVE AppendLoop(_, _)
\* for j in range(pos, len(new_utf8_chars)): print_msg += chr(new_utf8_chars[j])
\* chr(b) is the code point whose number is the byte b
AppendLoop(j, new_utf8_chars) ==
    IF j >= Len(new_utf8_chars) THEN <<>>
    ELSE <<new_utf8_chars[j + 1]>> \o AppendLoop(j + 1, new_utf8_chars)

\* mutant: erases one instruction per str1 position, whatever the mismatch
PrintMsg_eraseAll(cur_utf8_chars, new_utf8_chars) ==
    EraseLoop(0, Len(cur_utf8_chars))
        \o AppendLoop(FirstIdxMismatch(cur_utf8_chars, new_utf8_chars), new_utf8_chars)

\* mutant: never erases
PrintMsg_noErase(cur_utf8_chars, new_utf8_chars) ==
    AppendLoop(FirstIdxMismatch(cur_utf8_chars, new_utf8_chars), new_utf8_chars)

\* print_msg as generate builds it from the previous and the new snapshot
PrintMsg(cur_utf8_chars, new_utf8_chars) ==
    LET pos == FirstIdxMismatch(cur_utf8_chars, new_utf8_chars)
    IN  EraseLoop(pos, Len(cur_utf8_chars)) \o AppendLoop(pos, new_utf8_chars)

(***************************************************************************)
(* State                                                                   *)
(***************************************************************************)
VARIABLES
    pc,                 \* position of ChatModule.generate
    prompt,             \* the prompt passed to generate
    progress_callback,  \* the callback object passed to generate: [interval]
    i,                  \* local i of generate
    cur_utf8_chars,     \* local cur_utf8_chars of generate
    be_message,         \* mock backend: the str get_message returns
    be_stopped,         \* mock backend: the integer stopped returns
    log,                \* calls made to the backend and to the callback, in order
    rc_pc,              \* SpecReconcile: "input" or "done"
    rc_cur,             \* SpecReconcile: previous snapshot (bytes)
    rc_new,             \* SpecReconcile: new snapshot (bytes)
    rc_pos,             \* SpecReconcile: result of _first_idx_mismatch
    rc_print_msg,       \* SpecReconcile: print_msg
    mg_pc,              \* SpecMerge: "input" or "done"
    mg_json,            \* SpecMerge: json_object, the parsed mlc-chat-config.json
    mg_user,            \* SpecMerge: user_chat_config
    mg_final,           \* SpecMerge: what _get_chat_config returned
    sz_pc,              \* SpecSerialize: "input" or "done"
    sz_chat_config,     \* SpecSerialize: the caller's chat_config object
    sz_conv_template,   \* SpecSerialize: the conv_template argument
    sz_json_str,        \* SpecSerialize: what _convert_chat_config_to_json_str returned
    sz_object,          \* SpecSerialize: the caller's chat_config object, as it is now
    rs_pc,              \* SpecResolve: "input" or "done"
    rs_model,           \* SpecResolve: the model argument
    rs_fs,              \* SpecResolve: the file system, [files, dirs]
    rs_result,          \* SpecResolve: what _get_model_path returned or raised
    ss_pc,              \* SpecSession: the step of __init__ to run, "ready" or "failed"
    ss_args,            \* SpecSession: the arguments of ChatModule(...)
    ss_env,             \* SpecSession: [fs, platform, exist], the machine
    ss_doc,             \* SpecSession: the content of mlc-chat-config.json
    ss_self,            \* SpecSession: the attributes of the ChatModule
    ss_device_name,     \* SpecSession: local device_name of __init__
    ss_error,           \* SpecSession: the exception the last call raised, or None
    ss_call,            \* SpecSession: the last call made on the ChatModule
    ss_log,             \* SpecSession: calls made to the backend, in order
    ss_be,              \* SpecSession: the backend, [config, history]
    ss_resets,          \* SpecSession: number of reset_chat calls made
    mc_calls,           \* SpecCalls: number of generate calls that have returned
    mc_prev,            \* SpecCalls: cur_utf8_chars of the last call when it returned
    lv_plan,            \* SpecLive: the decode step after which the backend stops, -1 never
    gx_error,           \* SpecRaise: the exception generate raised, or None
    ts_pc,              \* SpecTwo: position of generate, per ChatModule
    ts_i,               \* SpecTwo: local i of generate, per ChatModule
    ts_cur,             \* SpecTwo: local cur_utf8_chars of generate, per ChatModule
    ts_steps,           \* SpecTwo: decode steps the backend has run, per ChatModule
    ts_script,          \* SpecTwo: what the backend holds after each step, per ChatModule
    ts_callback,        \* SpecTwo: the progress_callback object passed, per ChatModule
    ts_calls,           \* SpecTwo: the callback invocations made, per ChatModule
    lb_pc,              \* SpecLib: "input" or "done"
    lb_args,            \* SpecLib: the arguments of _get_lib_module and sys.platform
    lb_fs,              \* SpecLib: the file system, [files, dirs]
    lb_probes,          \* SpecLib: the paths os.path.isfile was asked about, in order
    lb_result,          \* SpecLib: what _get_lib_module returned or raised
    fr_pc,              \* SpecFrame: "merge", "serialize" or "done"
    fr_call,            \* SpecFrame: the caller's chat_config and the file, as passed
    fr_object,          \* SpecFrame: the caller's chat_config object, as it is now
    fr_file,            \* SpecFrame: the parsed content of the config file, as it is now
    fr_final,           \* SpecFrame: what _get_chat_config returned, or None
    fr_json_str         \* SpecFrame: what _convert_chat_config_to_json_str returned

gen_vars == <<pc, prompt, progress_callback, i, cur_utf8_chars, be_message, be_stopped, log>>
rc_vars == <<rc_pc, rc_cur, rc_new, rc_pos, rc_print_msg>>
mg_vars == <<mg_pc, mg_json, mg_user, mg_final>>
sz_vars == <<sz_pc, sz_chat_config, sz_conv_template, sz_json_str, sz_object>>
rs_vars == <<rs_pc, rs_model, rs_fs, rs_result>>
ss_vars == <<ss_pc, ss_args, ss_env, ss_doc, ss_self, ss_device_name, ss_error, ss_call,
             ss_log, ss_be, ss_resets>>
mc_vars == <<mc_calls, mc_prev>>
lv_vars == <<lv_plan>>
gx_vars == <<gx_error>>
ts_vars == <<ts_pc, ts_i, ts_cur, ts_steps, ts_script, ts_callback, ts_calls>>
lb_vars == <<lb_pc, lb_args, lb_fs, lb_probes, lb_result>>
fr_vars == <<fr_pc, fr_call, fr_object, fr_file, fr_final, fr_json_str>>
ext_vars == <<mc_vars, lv_vars, gx_vars, ts_vars, lb_vars, fr_vars>>
vars == <<gen_vars, rc_vars, mg_vars, sz_vars, rs_vars, ss_vars, ext_vars>>

(***************************************************************************)
(* PlaceInPrompt and the calls the mock backend and the callback record    *)
(***************************************************************************)
PlaceInPrompt == [All |-> 0, Begin |-> 1, Middle |-> 2, End |-> 3]

\* self.prefill_func(input, decode_next_token, place_in_prompt.value)
PrefillFuncCall(input, decode_next_token, place_in_prompt) ==
    [op |-> "prefill", input |-> input, decode_next_token |-> decode_next_token,
     place_in_prompt |-> place_in_prompt]

\* mutant: the prompt is placed as PlaceInPrompt.Middle (the default of embed_text)
Prefill_middle(input) == PrefillFuncCall(input, TRUE, PlaceInPrompt.Middle)

\* self._prefill(prompt) with the defaults decode_next_token=True,
\* place_in_prompt=PlaceInPrompt.All
Prefill(input) == PrefillFuncCall(input, TRUE, PlaceInPrompt.All)

\* self.decode_func()
DecodeFuncCall == [op |-> "decode"]

\* self.stopped_func(), which returned ret
StoppedFuncCall(ret) == [op |-> "stopped", ret |-> ret]

\* self.get_message_func(), which returned ret
GetMessageFuncCall(ret) == [op |-> "get_message", ret |-> ret]

\* stream_to_stdout.__call__(message="", stopped=False)
CallbackCall(message, stopped) ==
    [op |-> "callback", message |-> message, stopped |-> stopped]

\* mutant: the backend's answer is dropped
Stopped_never(ret) == FALSE

\* ChatModule._stopped: self.stopped_func() != 0
Stopped(ret) == ret # 0

\* mutant: the cadence alone decides, the stop state is not consulted
PollDue_cadenceOnly(idx, interval, stopped) == idx % interval = 0

\* i % progress_callback.interval == 0 or self._stopped()
PollDue(idx, interval, stopped) == idx % interval = 0 \/ stopped

(***************************************************************************)
(* The mock backend: what prefill and decode may leave behind              *)
(***************************************************************************)
Prompts == {"hello", "hi"}
GenMsgs == {StrEmpty, StrHi, StrHiBang, StrHe}
StopValues == {0, 1}

(***************************************************************************)
(* ChatModule.generate                                                     *)
(***************************************************************************)
\* mutant: the snapshot of the call before is kept, as if it were an
\* attribute of the ChatModule
Generate_prefill_keepSnapshot ==
    /\ pc = "idle"
    /\ \E p \in Prompts, interval \in 1..MaxInterval,
          msg \in GenMsgs, st \in StopValues :
          /\ prompt' = p
          /\ progress_callback' = [interval |-> interval]
          /\ log' = Append(log, Prefill(p))
          /\ be_message' = msg
          /\ be_stopped' = st
    /\ i' = 0
    /\ cur_utf8_chars' = mc_prev
    /\ pc' = "while"
    /\ UNCHANGED <<rc_vars, mg_vars, sz_vars, rs_vars, ss_vars, ext_vars>>

\* self._prefill(prompt); i, cur_utf8_chars = 0, "".encode("utf-8")
Generate_prefill ==
    /\ pc = "idle"
    /\ \E p \in Prompts, interval \in 1..MaxInterval,
          msg \in GenMsgs, st \in StopValues :
          /\ prompt' = p
          /\ progress_callback' = [interval |-> interval]
          /\ log' = Append(log, Prefill(p))
          /\ be_message' = msg
          /\ be_stopped' = st
    /\ i' = 0
    /\ cur_utf8_chars' = Utf8Encode(StrEmpty)
    /\ pc' = "while"
    /\ UNCHANGED <<rc_vars, mg_vars, sz_vars, rs_vars, ss_vars, ext_vars>>

\* while not self._stopped():
Generate_while ==
    /\ pc = "while"
    /\ log' = Append(log, StoppedFuncCall(be_stopped))
    /\ pc' = IF Stopped(be_stopped) THEN "end" ELSE "decode"
    /\ UNCHANGED <<prompt, progress_callback, i, cur_utf8_chars, be_message, be_stopped, rc_vars, mg_vars, sz_vars, rs_vars, ss_vars, ext_vars>>

\* self._decode()
Generate_decode ==
    /\ pc = "decode"
    /\ log' = Append(log, DecodeFuncCall)
    /\ \E msg \in GenMsgs, st \in StopValues :
          /\ (i + 1 >= MaxSteps => st = 1)
          /\ be_message' = msg
          /\ be_stopped' = st
    /\ pc' = "poll"
    /\ UNCHANGED <<prompt, progress_callback, i, cur_utf8_chars, rc_vars, mg_vars, sz_vars, rs_vars, ss_vars, ext_vars>>

\* mutant: off the cadence the next decode is issued without the loop-head query
Generate_poll_skipHead ==
    /\ pc = "poll"
    /\ log' = IF i % progress_callback.interval = 0 THEN log
              ELSE Append(log, StoppedFuncCall(be_stopped))
    /\ IF PollDue(i, progress_callback.interval, Stopped(be_stopped))
       THEN /\ pc' = "reconcile"
            /\ i' = i
       ELSE /\ pc' = "decode"
            /\ i' = i + 1
    /\ UNCHANGED <<prompt, progress_callback, cur_utf8_chars, be_message, be_stopped, rc_vars, mg_vars, sz_vars, rs_vars, ss_vars, ext_vars>>

\* if i % progress_callback.interval == 0 or self._stopped(): ... ; i += 1
\* ('or' short-circuits: the backend is asked only off the cadence)
Generate_poll ==
    /\ pc = "poll"
    /\ log' = IF i % progress_callback.interval = 0 THEN log
              ELSE Append(log, StoppedFuncCall(be_stopped))
    /\ IF PollDue(i, progress_callback.interval, Stopped(be_stopped))
       THEN /\ pc' = "reconcile"
            /\ i' = i
       ELSE /\ pc' = "while"
            /\ i' = i + 1
    /\ UNCHANGED <<prompt, progress_callback, cur_utf8_chars, be_message, be_stopped, rc_vars, mg_vars, sz_vars, rs_vars, ss_vars, ext_vars>>

\* mutant: cur_utf8_chars = new_utf8_chars is forgotten
Generate_reconcile_staleSnapshot ==
    /\ pc = "reconcile"
    /\ LET new_msg == be_message
           new_utf8_chars == Utf8Encode(new_msg)
           print_msg == PrintMsg(cur_utf8_chars, new_utf8_chars)
       IN  log' = log \o <<GetMessageFuncCall(new_msg), CallbackCall(print_msg, FALSE)>>
    /\ i' = i + 1
    /\ pc' = "while"
    /\ UNCHANGED <<prompt, progress_callback, cur_utf8_chars, be_message, be_stopped, rc_vars, mg_vars, sz_vars, rs_vars, ss_vars, ext_vars>>

\* new_msg = self._get_message() ... progress_callback(message=print_msg); i += 1
Generate_reconcile ==
    /\ pc = "reconcile"
    /\ LET new_msg == be_message
           new_utf8_chars == Utf8Encode(new_msg)
           print_msg == PrintMsg(cur_utf8_chars, new_utf8_chars)
       IN  /\ cur_utf8_chars' = new_utf8_chars
           /\ log' = log \o <<GetMessageFuncCall(new_msg), CallbackCall(print_msg, FALSE)>>
    /\ i' = i + 1
    /\ pc' = "while"
    /\ UNCHANGED <<prompt, progress_callback, be_message, be_stopped, rc_vars, mg_vars, sz_vars, rs_vars, ss_vars, ext_vars>>

\* mutant: the end-of-stream signal is followed by one more (empty) delta
Generate_end_thenDelta ==
    /\ pc = "end"
    /\ log' = log \o <<CallbackCall(StrEmpty, TRUE), CallbackCall(StrEmpty, FALSE)>>
    /\ pc' = "done"
    /\ UNCHANGED <<prompt, progress_callback, i, cur_utf8_chars, be_message, be_stopped, rc_vars, mg_vars, sz_vars, rs_vars, ss_vars, ext_vars>>

\* progress_callback(stopped=True)
Generate_end ==
    /\ pc = "end"
    /\ log' = Append(log, CallbackCall(StrEmpty, TRUE))
    /\ pc' = "done"
    /\ UNCHANGED <<prompt, progress_callback, i, cur_utf8_chars, be_message, be_stopped, rc_vars, mg_vars, sz_vars, rs_vars, ss_vars, ext_vars>>

(***************************************************************************)
(* ChatConfig, ConvConfig and _get_chat_config                             *)
(*                                                                         *)
(* Python's None is the record None; any other field value is a record     *)
(* Value(s), or a ConvConfig / dict for conv_config.                       *)
(***************************************************************************)
None == [none |-> TRUE]
Value(s) == [v |-> s]

\* fields(ChatConfig), in declaration order
ChatConfigFields ==
    <<"model_lib", "local_id", "conv_template", "temperature", "repetition_penalty",
      "top_p", "mean_gen_len", "max_gen_len", "shift_fill_factor", "tokenizer_files",
      "conv_config", "model_category", "model_name">>

\* fields(ConvConfig), in declaration order
ConvConfigFields ==
    <<"name", "system", "roles", "messages", "offset", "separator_style", "seps",
      "role_msg_sep", "role_empty_sep", "stop_str", "stop_tokens", "add_bos">>

Range(seq) == {seq[k] : k \in 1..Len(seq)}

\* ChatConfig(**kwargs): every field not given defaults to None
ChatConfig(kwargs) ==
    [f \in Range(ChatConfigFields) |-> IF f \in DOMAIN kwargs THEN kwargs[f] ELSE None]

\* ConvConfig(**kwargs): every field not given defaults to None
ConvConfig(kwargs) ==
    [f \in Range(ConvConfigFields) |-> IF f \in DOMAIN kwargs THEN kwargs[f] ELSE None]

\* bool(x) for the values used here: None and the empty str are falsy
Truthy(x) == x # None /\ x # Value("")

RECURSIVE OverrideLoop(_, _, _)
\* for field in fields(user_chat_config): if the user's value is not None,
\* setattr(final_chat_config, field_name, field_value); from field number k on
OverrideLoop(final_chat_config, user_chat_config, k) ==
    IF k > Len(ChatConfigFields) THEN final_chat_config
    ELSE LET field_name == ChatConfigFields[k]
             field_value == user_chat_config[field_name]
         IN  OverrideLoop(IF field_value # None
                          THEN [final_chat_config EXCEPT ![field_name] = field_value]
                          ELSE final_chat_config,
                          user_chat_config, k + 1)

RECURSIVE OverrideLoop_truthy(_, _, _)
OverrideLoop_truthy(final_chat_config, user_chat_config, k) ==
    IF k > Len(ChatConfigFields) THEN final_chat_config
    ELSE LET field_name == ChatConfigFields[k]
             field_value == user_chat_config[field_name]
         IN  OverrideLoop_truthy(IF Truthy(field_value)
                                 THEN [final_chat_config EXCEPT ![field_name] = field_value]
                                 ELSE final_chat_config,
                                 user_chat_config, k + 1)

\* mutant: 'if field_value:' instead of 'if field_value is not None:'
GetChatConfig_truthy(json_object, user_chat_config) ==
    IF user_chat_config # None
    THEN OverrideLoop_truthy(ChatConfig(json_object), user_chat_config, 1)
    ELSE ChatConfig(json_object)

\* _get_chat_config, given the parsed content json_object of config_file_path
GetChatConfig(json_object, user_chat_config) ==
    IF user_chat_config # None
    THEN OverrideLoop(ChatConfig(json_object), user_chat_config, 1)
    ELSE ChatConfig(json_object)

\* mutant: the fields are set on user_chat_config itself, which is returned
UserChatConfigAfterGet_inPlace(json_object, user_chat_config) ==
    IF user_chat_config = None THEN None
    ELSE [f \in Range(ChatConfigFields) |->
             IF user_chat_config[f] # None THEN user_chat_config[f]
             ELSE ChatConfig(json_object)[f]]

\* the caller's user_chat_config object after _get_chat_config: the loop
\* reads it with getattr and calls setattr on final_chat_config only
UserChatConfigAfterGet(json_object, user_chat_config) == user_chat_config

\* the content of config_file_path after _get_chat_config: the file is opened
\* with mode "rt" and read by json.load
ConfigFileAfterGet(json_object) == json_object

\* one entry of a Python dict
Item(k, v) == [key |-> k, value |-> v]

\* the keys of a dict, given as the sequence of its entries
Keys(d) == {d[k].key : k \in 1..Len(d)}

\* d[key], for a key of the dict
Lookup(d, key) == (CHOOSE e \in Range(d) : e.key = key).value

RECURSIVE ConvDictLoop(_, _)
\* for conv_k, conv_v in v.items(): if conv_v is not None: conv_dict[conv_k] = conv_v
\* over asdict of the ConvConfig v, from field number k on
ConvDictLoop(v, k) ==
    IF k > Len(ConvConfigFields) THEN <<>>
    ELSE LET conv_k == ConvConfigFields[k]
         IN  (IF v[conv_k] # None THEN <<Item(conv_k, v[conv_k])>> ELSE <<>>)
                 \o ConvDictLoop(v, k + 1)

RECURSIVE ChatDictLoop(_, _)
\* for k, v in asdict(chat_config).items(): ... chat_dict[k] = ..., from field
\* number n on
ChatDictLoop(chat_config, n) ==
    IF n > Len(ChatConfigFields) THEN <<>>
    ELSE LET k == ChatConfigFields[n]
             v == chat_config[k]
         IN  (IF k = "conv_config" /\ v # None THEN <<Item(k, ConvDictLoop(v, 1))>>
              ELSE IF v # None THEN <<Item(k, v)>>
              ELSE <<>>)
                 \o ChatDictLoop(chat_config, n + 1)

\* json.dumps(chat_dict): the JSON text of a dict, kept as its entries in order
JsonDumps(chat_dict) == [json |-> chat_dict]

\* chat_config.conv_template = conv_template: the caller's object after
\* _convert_chat_config_to_json_str
ChatConfigAfterConvert(chat_config, conv_template) ==
    IF chat_config = None THEN None
    ELSE [chat_config EXCEPT !["conv_template"] = conv_template]

\* mutant: the resolved conv_template is not written into the override
ConvertChatConfigToJsonStr_ownTemplate(chat_config, conv_template) ==
    IF chat_config = None THEN Value("")
    ELSE JsonDumps(ChatDictLoop(chat_config, 1))

\* _convert_chat_config_to_json_str(chat_config, conv_template)
ConvertChatConfigToJsonStr(chat_config, conv_template) ==
    IF chat_config = None THEN Value("")
    ELSE JsonDumps(ChatDictLoop(ChatConfigAfterConvert(chat_config, conv_template), 1))

SzIdle ==
    /\ sz_pc = "off"
    /\ sz_chat_config = None
    /\ sz_conv_template = None
    /\ sz_json_str = None
    /\ sz_object = None

(***************************************************************************)
(* Paths, the file system and the resolvers                                *)
(*                                                                         *)
(* A str built by an f-string or os.path.join is the sequence of its       *)
(* pieces, every path separator a piece of its own; an object that may be  *)
(* None is a record.                                                       *)
(***************************************************************************)
\* _PYTHON_GET_STARTED_TUTORIAL_URL
TutorialUrl == "https://github.com/mlc-ai/notebooks/blob/main/mlc-llm/tutorial_chat_module_getting_started.ipynb"

\* os.path.join(a, name), for a relative name
Join(a, name) == a \o <<"/">> \o name

\* os.path.isabs(p): the working directory "<cwd>" stands for an absolute path
IsAbs(p) == p # <<>> /\ p[1] = "<cwd>"

RECURSIVE Normpath(_)
\* os.path.normpath(p), for the paths built here: a name followed by
\* os.pardir is removed together with it.  A path is the sequence of the
\* pieces of its str, every separator "/" a piece of its own
Normpath(p) ==
    LET ups == {k \in 3..Len(p) : p[k] = ".." /\ p[k - 1] = "/"}
    IN  IF ups = {} THEN p
        ELSE LET k == CHOOSE x \in ups : \A y \in ups : x <= y
                 seps == {j \in 1..(k - 2) : p[j] = "/"}
                 j == IF seps = {} THEN 0 ELSE CHOOSE x \in seps : \A y \in seps : y <= x
             IN  IF j = 0
                 THEN Normpath(IF k = Len(p) THEN <<".">> ELSE SubSeq(p, k + 2, Len(p)))
                 ELSE Normpath(SubSeq(p, 1, j - 1) \o SubSeq(p, k + 1, Len(p)))

\* os.path.abspath(p): normpath(join(os.getcwd(), p)), an absolute p is kept
Abspath(p) == IF IsAbs(p) THEN Normpath(p) ELSE Normpath(<<"<cwd>", "/">> \o p)

\* os.path.isfile / os.path.isdir on the file system fs = [files, dirs]: a
\* relative and an absolute path name the same file when their abspath agrees
IsFile(fs, p) == \E f \in fs.files : Abspath(f) = Abspath(p)
IsDir(fs, p) == \E f \in fs.dirs : Abspath(f) = Abspath(p)


\* str(x) inside an f-string, for None and for a Value
FStr(x) == IF x = None THEN "None" ELSE x.v

\* an exception
Exception(type, message) == [type |-> type, message |-> message]

\* candidate_paths of _get_model_path, in search priority
ModelCandidatePaths(model) ==
    << <<model>>,
       <<"dist", "/", "prebuilt", "/", model>>,
       <<"dist", "/", model, "/", "params">>,
       <<"dist", "/", "prebuilt", "/", "mlc-chat-", model>> >>

RECURSIVE DashLines(_, _)
\* the str that is "- " + p + "\n" for each path p of a list, from number k on
DashLines(paths, k) ==
    IF k > Len(paths) THEN <<>>
    ELSE <<"- ">> \o paths[k] \o <<"\n">> \o DashLines(paths, k + 1)

\* line 250: valid_dir_str over the candidates that are folders
ValidDirs(model, fs) ==
    SelectSeq(ModelCandidatePaths(model), LAMBDA c : IsDir(fs, c))

\* [Abspath(p) : p in paths]
AbspathAll(paths) == [k \in 1..Len(paths) |-> Abspath(paths[k])]

\* err_msg of Error 1 (E1): there is a folder, but not an mlc-llm model folder
ModelErrorE1(model, fs) ==
    <<"The model folder provided does not seem to refer to a valid mlc-llm model folder.\n",
      "Specifically, we cannot find 'mlc-chat-config.json', a required file. You should ",
      "provide a path that contains the file.\n",
      "According to your input 'model', we looked at folder(s):\n">>
        \o DashLines(AbspathAll(ValidDirs(model, fs)), 1)
        \o <<"MLC-Chat consumes models that are processed by the MLC-LLM build process.\n",
             "Please checkout ", TutorialUrl, " for an example on ", "how to load a model.">>

\* err_msg of Error 2 (E0): cannot find a folder
ModelErrorE0(model) ==
    <<"Cannot find the model folder. We searched over the following possible paths:\n">>
        \o DashLines(ModelCandidatePaths(model), 1)
        \o <<"You can try to pass in 'model=/path/to/your-model-path', and confirm ",
             "that it contains 'mlc-chat-config.json', among other essential files.\n",
             "Please checkout ", TutorialUrl, " for an ", "example on how to load a model.">>

RECURSIVE FirstModelFolder(_, _, _)
\* the first loop of _get_model_path from candidate number k on: the index of
\* the first candidate with mlc-chat-config.json under it, 0 if there is none
FirstModelFolder(model, fs, k) ==
    IF k > Len(ModelCandidatePaths(model)) THEN 0
    ELSE IF IsFile(fs, Join(ModelCandidatePaths(model)[k], <<"mlc-chat-config.json">>)) THEN k
    ELSE FirstModelFolder(model, fs, k + 1)

\* mutant: the loop does not return at the first match, the last one wins
GetModelPath_lastMatch(model, fs) ==
    LET ks == {k \in 1..Len(ModelCandidatePaths(model)) :
                  IsFile(fs, Join(ModelCandidatePaths(model)[k], <<"mlc-chat-config.json">>))}
        k == IF ks = {} THEN 0 ELSE CHOOSE n \in ks : \A m \in ks : m <= n
    IN  IF k # 0
        THEN [ok |-> TRUE,
              model_path |-> ModelCandidatePaths(model)[k],
              chat_file |-> Join(ModelCandidatePaths(model)[k], <<"mlc-chat-config.json">>)]
        ELSE IF ValidDirs(model, fs) # <<>>
        THEN [ok |-> FALSE, error |-> Exception("FileNotFoundError", ModelErrorE1(model, fs))]
        ELSE [ok |-> FALSE, error |-> Exception("FileNotFoundError", ModelErrorE0(model))]

\* _get_model_path(model): [ok, model_path, chat_file] or [ok, error]
GetModelPath(model, fs) ==
    LET k == FirstModelFolder(model, fs, 1)
    IN  IF k # 0
        THEN [ok |-> TRUE,
              model_path |-> ModelCandidatePaths(model)[k],
              chat_file |-> Join(ModelCandidatePaths(model)[k], <<"mlc-chat-config.json">>)]
        ELSE IF ValidDirs(model, fs) # <<>>
        THEN [ok |-> FALSE, error |-> Exception("FileNotFoundError", ModelErrorE1(model, fs))]
        ELSE [ok |-> FALSE, error |-> Exception("FileNotFoundError", ModelErrorE0(model))]

\* sys.platform.startswith(prefix): sys.platform is lower case
PlatformStartsWith(platform, prefix) ==
    <<platform, prefix>> \in {<<"linux", "linux">>, <<"win32", "win32">>}

\* f"{chat_config.model_lib}-{device_name}" + suffix
LibName(chat_config, device_name, suffix) ==
    <<FStr(chat_config["model_lib"]), "-", device_name, suffix>>

\* candidate_lib_names of _get_lib_module
CandidateLibNames(chat_config, device_name, platform) ==
    IF PlatformStartsWith(platform, "linux")
    THEN << LibName(chat_config, device_name, ".so") >>
    ELSE IF PlatformStartsWith(platform, "Darwin")
    THEN << LibName(chat_config, device_name, ".dylib"),
            LibName(chat_config, device_name, ".so") >>
    ELSE IF PlatformStartsWith(platform, "win32")
    THEN << LibName(chat_config, device_name, ".dll") >>
    ELSE << LibName(chat_config, device_name, ".dylib"),
            LibName(chat_config, device_name, ".so"),
            LibName(chat_config, device_name, ".dll") >>

\* the five candidates of one library name
LibPathsOf(model, model_path, lib_name) ==
    << lib_name,
       <<"dist", "/", "prebuilt", "/", "lib", "/">> \o lib_name,
       <<"dist", "/", model, "/">> \o lib_name,
       Join(model_path, lib_name),
       Join(Abspath(Join(Abspath(model_path), <<"..">>)), lib_name) >>

RECURSIVE LibCandidatePathsFrom(_, _, _, _)
\* candidate_paths of _get_lib_module, from library name number k on
LibCandidatePathsFrom(model, model_path, names, k) ==
    IF k > Len(names) THEN <<>>
    ELSE LibPathsOf(model, model_path, names[k])
             \o LibCandidatePathsFrom(model, model_path, names, k + 1)

LibCandidatePaths(model, model_path, chat_config, device_name, platform) ==
    LibCandidatePathsFrom(model, model_path,
                          CandidateLibNames(chat_config, device_name, platform), 1)

\* tvm.runtime.load_module(path): the loaded module
Module(path) == [module |-> path]

\* err_msg when the lib_path passed in is not a file
LibErrorNotFile(lib_path) ==
    <<"The 'lib_path' you passed in is not a file: ">> \o lib_path
        \o <<".\nPlease checkout ", TutorialUrl, " for an example on how to load a model.">>

\* err_msg when no candidate library exists
LibErrorNotFound(chat_config, config_file_path, candidate_paths) ==
    <<"Cannot find the model library that corresponds to '", FStr(chat_config["model_lib"]), "'.\n",
      "'", FStr(chat_config["model_lib"]), "' is either provided in the 'chat_config' ",
      "you passed in, or specified in ">> \o config_file_path \o <<".\n",
      "We searched over the following possible paths: \n">>
        \o DashLines(candidate_paths, 1)
        \o <<"If you would like to directly specify the model library path, you may ",
             "consider passing in the 'lib_path' parameter.\n",
             "Please checkout ", TutorialUrl, " for an example ", "on how to load a model.">>

\* the paths _get_lib_module passes to os.path.isfile, in order
LibProbes(model, model_path, chat_config, lib_path, device_name, platform, fs) ==
    IF lib_path # None THEN <<lib_path.path>>
    ELSE LET candidate_paths ==
                 LibCandidatePaths(model, model_path, chat_config, device_name, platform)
             hits == {k \in 1..Len(candidate_paths) : IsFile(fs, candidate_paths[k])}
         IN  IF hits = {} THEN candidate_paths
             ELSE SubSeq(candidate_paths, 1, CHOOSE k \in hits : \A m \in hits : k <= m)

\* mutant: the candidates are searched first, lib_path is the last resort
GetLibModule_candidatesFirst(model, model_path, chat_config, lib_path, device_name, config_file_path, platform, fs) ==
    LET candidate_paths ==
            LibCandidatePaths(model, model_path, chat_config, device_name, platform)
        found == SelectSeq(candidate_paths, LAMBDA c : IsFile(fs, c))
    IN  IF found # <<>>
        THEN [ok |-> TRUE, module |-> Module(found[1])]
        ELSE IF lib_path # None /\ IsFile(fs, lib_path.path)
        THEN [ok |-> TRUE, module |-> Module(lib_path.path)]
        ELSE [ok |-> FALSE,
              error |-> Exception("FileNotFoundError",
                                  LibErrorNotFound(chat_config, config_file_path,
                                                   candidate_paths))]

\* _get_lib_module(...): [ok, module] or [ok, error]; lib_path is None or
\* [path |-> p]
GetLibModule(model, model_path, chat_config, lib_path, device_name, config_file_path, platform, fs) ==
    IF lib_path # None
    THEN IF IsFile(fs, lib_path.path)
         THEN [ok |-> TRUE, module |-> Module(lib_path.path)]
         ELSE [ok |-> FALSE,
               error |-> Exception("FileNotFoundError", LibErrorNotFile(lib_path.path))]
    ELSE LET candidate_paths ==
                 LibCandidatePaths(model, model_path, chat_config, device_name, platform)
             found == SelectSeq(candidate_paths, LAMBDA c : IsFile(fs, c))
         IN  IF found # <<>>
             THEN [ok |-> TRUE, module |-> Module(found[1])]
             ELSE [ok |-> FALSE,
                   error |-> Exception("FileNotFoundError",
                                       LibErrorNotFound(chat_config, config_file_path,
                                                        candidate_paths))]

\* tvm.<device_name>(device_id)
Device(device_name, device_id) == [device_type |-> device_name, device_id |-> device_id]

\* mutant: cuda is asked about before rocm
DetectLocalDevice_cudaFirst(exist, device_id) ==
    IF "metal" \in exist THEN [device |-> Device("metal", device_id), name |-> "metal"]
    ELSE IF "cuda" \in exist THEN [device |-> Device("cuda", device_id), name |-> "cuda"]
    ELSE IF "rocm" \in exist THEN [device |-> Device("rocm", device_id), name |-> "rocm"]
    ELSE IF "vulkan" \in exist THEN [device |-> Device("vulkan", device_id), name |-> "vulkan"]
    ELSE IF "opencl" \in exist THEN [device |-> Device("opencl", device_id), name |-> "opencl"]
    ELSE [device |-> Device("cpu", device_id), name |-> "llvm"]

\* _detect_local_device(device_id), given the set of devices whose .exist is true
DetectLocalDevice(exist, device_id) ==
    IF "metal" \in exist THEN [device |-> Device("metal", device_id), name |-> "metal"]
    ELSE IF "rocm" \in exist THEN [device |-> Device("rocm", device_id), name |-> "rocm"]
    ELSE IF "cuda" \in exist THEN [device |-> Device("cuda", device_id), name |-> "cuda"]
    ELSE IF "vulkan" \in exist THEN [device |-> Device("vulkan", device_id), name |-> "vulkan"]
    ELSE IF "opencl" \in exist THEN [device |-> Device("opencl", device_id), name |-> "opencl"]
    ELSE [device |-> Device("cpu", device_id), name |-> "llvm"]

\* step 1 of ChatModule.__init__: [ok, device, device_name] or [ok, error];
\* the message is one str literal continued over two source lines, so the
\* indentation of its second line is part of it
GetDevice(device_name, device_id, exist) ==
    IF device_name \in {"cuda", "metal", "vulkan", "rocm", "opencl"}
    THEN [ok |-> TRUE, device |-> Device(device_name, device_id), device_name |-> device_name]
    ELSE IF device_name = "auto"
    THEN [ok |-> TRUE, device |-> DetectLocalDevice(exist, device_id).device,
          device_name |-> DetectLocalDevice(exist, device_id).name]
    ELSE [ok |-> FALSE,
          error |-> Exception("ValueError",
                              <<"invalid device name: ", device_name,
                                ". Please choose from the following: ",
                                "                             cuda, metal, vulkan, rocm, opencl, auto.">>)]

\* the content of a config file that holds the text "not json"
Malformed == [malformed |-> TRUE]

\* open(config_file_path) and json.load(f): [ok, json_object] or [ok, error];
\* the message is str(e) of the JSONDecodeError json.load raises on "not json"
LoadJson(content) ==
    IF content = Malformed
    THEN [ok |-> FALSE,
          error |-> Exception("JSONDecodeError",
                              <<"Expecting value", ": line 1 column 1 (char 0)">>)]
    ELSE [ok |-> TRUE, json_object |-> content]

McIdle ==
    /\ mc_calls = 0
    /\ mc_prev = <<>>

LvIdle == lv_plan = 0

GxIdle == gx_error = None

TsIdle ==
    /\ ts_pc = None
    /\ ts_i = None
    /\ ts_cur = None
    /\ ts_steps = None
    /\ ts_script = None
    /\ ts_callback = None
    /\ ts_calls = None

LbIdle ==
    /\ lb_pc = "off"
    /\ lb_args = None
    /\ lb_fs = [files |-> {}, dirs |-> {}]
    /\ lb_probes = <<>>
    /\ lb_result = None

FrIdle ==
    /\ fr_pc = "off"
    /\ fr_call = None
    /\ fr_object = None
    /\ fr_file = None
    /\ fr_final = None
    /\ fr_json_str = None

ExtIdle ==
    /\ McIdle
    /\ LvIdle
    /\ GxIdle
    /\ TsIdle
    /\ LbIdle
    /\ FrIdle

RsIdle ==
    /\ rs_pc = "off"
    /\ rs_model = ""
    /\ rs_fs = [files |-> {}, dirs |-> {}]
    /\ rs_result = None

SsIdle ==
    /\ ss_pc = "off"
    /\ ss_args = None
    /\ ss_env = None
    /\ ss_doc = None
    /\ ss_self = None
    /\ ss_device_name = ""
    /\ ss_error = None
    /\ ss_call = None
    /\ ss_log = <<>>
    /\ ss_be = None
    /\ ss_resets = 0

RcIdle ==
    /\ rc_pc = "off"
    /\ rc_cur = <<>>
    /\ rc_new = <<>>
    /\ rc_pos = 0
    /\ rc_print_msg = <<>>

MgIdle ==
    /\ mg_pc = "off"
    /\ mg_json = None
    /\ mg_user = None
    /\ mg_final = None

GenIdle ==
    /\ pc = "off"
    /\ prompt = ""
    /\ progress_callback = [interval |-> 2]
    /\ i = 0
    /\ cur_utf8_chars = <<>>
    /\ be_message = StrEmpty
    /\ be_stopped = 0
    /\ log = <<>>

\* a constructed ChatModule, a fresh mock backend and no call made yet
Init ==
    /\ pc = "idle"
    /\ prompt = ""
    /\ progress_callback = [interval |-> 2]
    /\ i = 0
    /\ cur_utf8_chars = <<>>
    /\ be_message = StrEmpty
    /\ be_stopped = 0
    /\ log = <<>>
    /\ RcIdle
    /\ MgIdle
    /\ SzIdle
    /\ RsIdle
    /\ SsIdle
    /\ ExtIdle

Next ==
    \/ Generate_prefill
    \/ Generate_while
    \/ Generate_decode
    \/ Generate_poll
    \/ Generate_reconcile
    \/ Generate_end

Spec == Init /\ [][Next]_vars

(***************************************************************************)
(* Reading the call log                                                    *)
(***************************************************************************)
IsDelta(e) == e.op = "callback" /\ ~e.stopped
IsEnd(e) == e.op = "callback" /\ e.stopped

\* the callback invocations, in order
Callbacks == SelectSeq(log, LAMBDA e : e.op = "callback")
\* what get_message returned, in order
Snapshots == SelectSeq(log, LAMBDA e : e.op = "get_message")

DecodePos == {k \in 1..Len(log) : log[k].op = "decode"}
EndPos == {k \in 1..Len(log) : IsEnd(log[k])}
PrefillPos == {k \in 1..Len(log) : log[k].op = "prefill"}

\* the number (from 0) of the loop iteration whose decode is log[d]
IterOf(d) == Cardinality({k \in DecodePos : k < d})
\* the position of the decode after log[d], or one past the end of the log
NextDecode(d) ==
    IF \E k \in DecodePos : k > d
    THEN CHOOSE k \in DecodePos : k > d /\ \A m \in DecodePos : m > d => k <= m
    ELSE Len(log) + 1
\* the calls made by the iteration of log[d] after its decode, up to and
\* including the loop-head query that follows it
Segment(d) == (d + 1)..(NextDecode(d) - 1)
\* the iteration of log[d] has run to the next loop head
Settled(d) == NextDecode(d) <= Len(log) \/ pc \in {"decode", "end", "done"}
\* the iteration of log[d] forwarded a delta to the callback
Forwarded(d) == \E k \in Segment(d) : IsDelta(log[k])
\* what the backend reported about stopping right after the decode log[d]
StoppedAfter(d) ==
    LET qs == {k \in Segment(d) : log[k].op = "stopped"}
        q == CHOOSE k \in qs : \A m \in qs : k <= m
    IN  Stopped(log[q].ret)

(***************************************************************************)
(* C1: every generate call that returns has, before the end-of-stream      *)
(* signal, forwarded a delta computed from the backend's final message:    *)
(* a get_message call made after the last prefill/decode, returning the    *)
(* final message, immediately followed by a delta and later by the         *)
(* end-of-stream signal -- also when the backend already reports stopped   *)
(* when prefill returns.                                                   *)
(***************************************************************************)
C1_FinalDeltaBeforeEnd ==
    pc = "done" =>
        \E k \in 1..(Len(log) - 1) :
            /\ log[k].op = "get_message"
            /\ log[k].ret = be_message
            /\ IsDelta(log[k + 1])
            /\ \A j \in (k + 1)..Len(log) : log[j].op \notin {"prefill", "decode"}
            /\ \E e \in EndPos : e > k + 1

(***************************************************************************)
(* C2: once an iteration of the loop has run, it has forwarded a delta if  *)
(* and only if its number is a multiple of the interval or the backend     *)
(* reported stopped right after its decode; so among any 'interval'        *)
(* consecutive iterations one forwards a delta, and the stopping iteration *)
(* forwards one.                                                           *)
(***************************************************************************)
C2_DeltaCadence ==
    /\ \A d \in DecodePos :
          Settled(d) =>
              (Forwarded(d) <=> (IterOf(d) % progress_callback.interval = 0 \/ StoppedAfter(d)))
    /\ \A d \in DecodePos :
          (Settled(d) /\ IterOf(d) >= progress_callback.interval - 1) =>
              \E d2 \in DecodePos :
                  /\ IterOf(d2) \in (IterOf(d) - (progress_callback.interval - 1))..IterOf(d)
                  /\ Forwarded(d2)
    /\ \A d \in DecodePos :
          (pc = "done" /\ NextDecode(d) > Len(log)) => Forwarded(d)

\* interval 3, three decode steps: iteration 0 forwards on the cadence,
\* iteration 1 forwards nothing, iteration 2 forwards because the backend stopped
C2_Witness ==
    /\ pc = "done"
    /\ progress_callback.interval = 3
    /\ Cardinality(DecodePos) = 3
    /\ {IterOf(d) : d \in {x \in DecodePos : Forwarded(x)}} = {0, 2}

(***************************************************************************)
(* C3                                                                      *)
(***************************************************************************)
\* the snapshots never lose or change a byte: each extends the one before
AppendOnly ==
    \A k \in 1..Len(Snapshots) :
        LET prev == IF k = 1 THEN <<>> ELSE Utf8Encode(Snapshots[k - 1].ret)
            new == Utf8Encode(Snapshots[k].ret)
        IN  Len(prev) <= Len(new) /\ SubSeq(new, 1, Len(prev)) = prev

\* the bytes the k-th snapshot adds to the one before it
AppendedBytes(k) ==
    LET prev == IF k = 1 THEN <<>> ELSE Utf8Encode(Snapshots[k - 1].ret)
        new == Utf8Encode(Snapshots[k].ret)
    IN  SubSeq(new, Len(prev) + 1, Len(new))

\* interval 1, the backend's message after its three decode steps is
\* "", "Hi", "Hi!", and it stops after the third
Scenario ==
    /\ pc = "done"
    /\ progress_callback.interval = 1
    /\ Cardinality(DecodePos) = 3
    /\ Len(Snapshots) = 3
    /\ Snapshots[1].ret = StrEmpty
    /\ Snapshots[2].ret = StrHi
    /\ Snapshots[3].ret = StrHiBang

\* C3 as stated: in the scenario the callback is invoked with "Hi", then "!",
\* then the end-of-stream signal, and with nothing else.
C3_ScenarioAsStated ==
    Scenario =>
        Callbacks = <<CallbackCall(StrHi, FALSE), CallbackCall(<<33>>, FALSE),
                      CallbackCall(StrEmpty, TRUE)>>

\* C3 (amended): with interval 1 every decode step forwards one delta, also
\* when it added nothing: in the scenario the callback is invoked with "",
\* "Hi", "!" and then the end-of-stream signal; for an append-only backend
\* the k-th delta has no erasure and is the bytes the k-th decode step
\* appended (one character per byte), and the end-of-stream signal follows.
C3_ScenarioAmended ==
    /\ Scenario =>
          Callbacks = <<CallbackCall(StrEmpty, FALSE), CallbackCall(StrHi, FALSE),
                        CallbackCall(<<33>>, FALSE), CallbackCall(StrEmpty, TRUE)>>
    /\ (pc = "done" /\ progress_callback.interval = 1 /\ AppendOnly) =>
          /\ Len(Callbacks) = Cardinality(DecodePos) + 1
          /\ Len(Snapshots) = Cardinality(DecodePos)
          /\ \A k \in 1..Len(Snapshots) :
                Callbacks[k] = CallbackCall(AppendedBytes(k), FALSE)
          /\ Callbacks[Len(Callbacks)] = CallbackCall(StrEmpty, TRUE)

C3_Witness == Scenario

(***************************************************************************)
(* C4: the end-of-stream signal is given at most once, nothing is          *)
(* forwarded after it, and a generate call that has returned has given it. *)
(***************************************************************************)
C4_EndOnceAndLast ==
    /\ Cardinality(EndPos) <= 1
    /\ \A e \in EndPos : e = Len(log)
    /\ pc = "done" => Cardinality(EndPos) = 1

\* a call that forwarded deltas and then returned
C4_Witness ==
    /\ pc = "done"
    /\ Len(Callbacks) >= 3
    /\ IsEnd(log[Len(log)])

(***************************************************************************)
(* C5: the first call generate makes is prefill(prompt, True, 0), and it   *)
(* makes no other prefill call.                                            *)
(***************************************************************************)
C5_PrefillFirstAndOnce ==
    /\ pc # "idle" =>
          /\ Len(log) >= 1
          /\ log[1] = [op |-> "prefill", input |-> prompt,
                       decode_next_token |-> TRUE, place_in_prompt |-> 0]
          /\ PrefillPos = {1}
    /\ pc = "idle" => log = <<>>

\* a call that went on to decode, query the stop state and fetch the message
C5_Witness ==
    /\ pc = "done"
    /\ prompt = "hello"
    /\ \E k \in 1..Len(log) : log[k].op = "get_message"
    /\ DecodePos # {}

(***************************************************************************)
(* SpecReconcile: the delta computation on its own                         *)
(***************************************************************************)
\* the bytes of "f" and the two bytes of the UTF-8 encoding of "e-acute"
ByteAlphabet == {102, 195, 169}
\* every byte string over the alphabet up to MaxLen, valid UTF-8 or not, and
\* the encodings of "caf\u00e9" and "caffe"
ByteStrings ==
    UNION {[1..n -> ByteAlphabet] : n \in 0..MaxLen}
        \cup {Utf8Encode(StrCafe), Utf8Encode(StrCaffe)}

InitReconcile ==
    /\ GenIdle
    /\ MgIdle
    /\ SzIdle
    /\ RsIdle
    /\ SsIdle
    /\ ExtIdle
    /\ rc_pc = "input"
    /\ rc_cur \in ByteStrings
    /\ rc_new \in ByteStrings
    /\ rc_pos = 0
    /\ rc_print_msg = <<>>

\* lines 610-615 of generate applied to (cur_utf8_chars, new_utf8_chars)
Reconcile ==
    /\ rc_pc = "input"
    /\ rc_pos' = FirstIdxMismatch(rc_cur, rc_new)
    /\ rc_print_msg' = PrintMsg(rc_cur, rc_new)
    /\ rc_pc' = "done"
    /\ UNCHANGED <<rc_cur, rc_new, gen_vars, mg_vars, sz_vars, rs_vars, ss_vars, ext_vars>>

NextReconcile == Reconcile

SpecReconcile == InitReconcile /\ [][NextReconcile]_vars

\* a is a prefix of b
IsPrefix(a, b) == Len(a) <= Len(b) /\ SubSeq(b, 1, Len(a)) = a
\* the length of the longest common prefix of a and b
CommonPrefixLen(a, b) ==
    CHOOSE p \in 0..Min(Len(a), Len(b)) :
        /\ SubSeq(a, 1, p) = SubSeq(b, 1, p)
        /\ \A q \in (p + 1)..Min(Len(a), Len(b)) : SubSeq(a, 1, q) # SubSeq(b, 1, q)
\* n erase instructions, each the three characters backspace, space, backspace
Erasures(n) == [k \in 1..(3 * n) |-> IF k % 3 = 2 THEN 32 ELSE 8]

(***************************************************************************)
(* C6: with p the length of the longest common prefix of the previous and  *)
(* the new byte string, print_msg is len(previous) - p erase instructions  *)
(* followed by one character per byte of new[p:]; dropping the last        *)
(* len(previous) - p bytes of previous and appending new[p:] gives new;    *)
(* and "caf\u00e9" -> "caffe" is two erasures followed by "fe".            *)
(***************************************************************************)
C6_DeltaOverBytes ==
    rc_pc = "done" =>
        LET p == CommonPrefixLen(rc_cur, rc_new)
            erase == Len(rc_cur) - p
            append == SubSeq(rc_new, p + 1, Len(rc_new))
        IN  /\ rc_print_msg = Erasures(erase) \o append
            /\ SubSeq(rc_cur, 1, Len(rc_cur) - erase) \o append = rc_new
            /\ (rc_cur = <<99, 97, 102, 195, 169>> /\ rc_new = <<99, 97, 102, 102, 101>>) =>
                   rc_print_msg = <<8, 32, 8, 8, 32, 8, 102, 101>>

\* the delta from "caf\u00e9" to "caffe" has been computed
C6_Witness ==
    /\ rc_pc = "done"
    /\ rc_cur = Utf8Encode(StrCafe)
    /\ rc_new = Utf8Encode(StrCaffe)
    /\ Len(rc_cur) = 5

(***************************************************************************)
(* C7: when the previous byte string is a prefix of the new one, print_msg *)
(* has no erasure and is exactly the bytes of new after len(previous); it  *)
(* is empty when the two are equal.                                        *)
(***************************************************************************)
C7_AppendOnlyAndIdempotent ==
    rc_pc = "done" =>
        /\ IsPrefix(rc_cur, rc_new) =>
              rc_print_msg = SubSeq(rc_new, Len(rc_cur) + 1, Len(rc_new))
        /\ rc_cur = rc_new => rc_print_msg = <<>>

\* a non-empty byte string extended by at least one byte
C7_Witness ==
    /\ rc_pc = "done"
    /\ rc_cur # <<>>
    /\ IsPrefix(rc_cur, rc_new)
    /\ Len(rc_new) > Len(rc_cur)

(***************************************************************************)
(* C8: the index p returned by _first_idx_mismatch(A, B) satisfies         *)
(* 0 <= p <= min(len(A), len(B)), A[:p] = B[:p], and p = len(A) or         *)
(* p = len(B) or A[p] /= B[p].                                             *)
(***************************************************************************)
C8_PrefixLaw ==
    rc_pc = "done" =>
        /\ rc_pos \in 0..Min(Len(rc_cur), Len(rc_new))
        /\ SubSeq(rc_cur, 1, rc_pos) = SubSeq(rc_new, 1, rc_pos)
        /\ \/ rc_pos = Len(rc_cur)
           \/ rc_pos = Len(rc_new)
           \/ rc_cur[rc_pos + 1] # rc_new[rc_pos + 1]

\* the two byte strings agree on a non-empty prefix and then differ
C8_Witness ==
    /\ rc_pc = "done"
    /\ rc_pos > 0
    /\ rc_pos < Len(rc_cur)
    /\ rc_pos < Len(rc_new)

(***************************************************************************)
(* SpecMerge: _get_chat_config on its own                                  *)
(***************************************************************************)
\* the fields whose presence and value vary over the inputs
VariedFields == {"conv_template", "temperature", "top_p"}
VariedConvFields == {"system", "stop_str"}
\* the value every field of the config document has, and the values a user sets
DocValue == Value("doc")
UserValues == {Value("user"), Value("")}

\* the partial records over a set of keys with values from a set
Partial(keys, values) == UNION {[ks -> values] : ks \in SUBSET keys}

\* what json.load may return: every scalar field outside VariedFields is
\* present, those in VariedFields and conv_config may be absent; conv_config
\* is a dict with some of VariedConvFields as keys
JsonObjects ==
    LET fixed == (Range(ChatConfigFields) \ VariedFields) \ {"conv_config"}
    IN  {[f \in fixed \cup DOMAIN top \cup DOMAIN cc |->
             IF f = "conv_config" THEN cc[f] ELSE DocValue] :
         top \in Partial(VariedFields, {DocValue}),
         cc \in Partial({"conv_config"}, Partial(VariedConvFields, {DocValue}))}

\* the user's ChatConfig: None, or some of VariedFields set and conv_config
\* unset or a ConvConfig with some of VariedConvFields set
UserChatConfigs ==
    {None} \cup
    {ChatConfig([f \in DOMAIN top \cup DOMAIN cc |->
                    IF f = "conv_config" THEN ConvConfig(cc[f]) ELSE top[f]]) :
     top \in Partial(VariedFields, UserValues),
     cc \in Partial({"conv_config"}, Partial(VariedConvFields, UserValues))}

InitMerge ==
    /\ GenIdle
    /\ RcIdle
    /\ SzIdle
    /\ RsIdle
    /\ SsIdle
    /\ ExtIdle
    /\ mg_pc = "input"
    /\ mg_json \in JsonObjects
    /\ mg_user \in UserChatConfigs
    /\ mg_final = None

\* final_chat_config = _get_chat_config(config_file_path, user_chat_config)
Merge ==
    /\ mg_pc = "input"
    /\ mg_final' = GetChatConfig(mg_json, mg_user)
    /\ mg_pc' = "done"
    /\ UNCHANGED <<mg_json, mg_user, gen_vars, rc_vars, sz_vars, rs_vars, ss_vars, ext_vars>>

NextMerge == Merge

SpecMerge == InitMerge /\ [][NextMerge]_vars

\* the base configuration: the config document as a ChatConfig
MergeBase == ChatConfig(mg_json)

(***************************************************************************)
(* C9: the merged configuration equals the base in every top-level field   *)
(* the override leaves unset (None) and equals the override's value in     *)
(* every top-level field it sets; without an override it equals the base.  *)
(***************************************************************************)
C9_MergeAdditive ==
    mg_pc = "done" =>
        /\ mg_user = None => mg_final = MergeBase
        /\ mg_user # None =>
              \A f \in Range(ChatConfigFields) :
                  /\ mg_user[f] = None => mg_final[f] = MergeBase[f]
                  /\ mg_user[f] # None => mg_final[f] = mg_user[f]

\* an override that sets temperature (to the empty value) and leaves top_p
\* unset, over a document that defines both
C9_Witness ==
    /\ mg_pc = "done"
    /\ mg_user # None
    /\ mg_user["temperature"] = Value("")
    /\ mg_user["top_p"] = None
    /\ MergeBase["temperature"] = DocValue
    /\ MergeBase["top_p"] = DocValue
    /\ mg_user["conv_config"] # None

\* the value a nested record (a ConvConfig, or the dict of the document)
\* holds for a field, None when it holds none
NestedGet(c, f) == IF f \in DOMAIN c THEN c[f] ELSE None

(***************************************************************************)
(* C10: when the document and the override both carry a conv_config, every *)
(* field of the merged conv_config is the override's where the override    *)
(* sets it and the document's where the override leaves it unset.          *)
(***************************************************************************)
C10_NestedMergedFieldwise ==
    (mg_pc = "done" /\ mg_user # None /\ MergeBase["conv_config"] # None) =>
        (mg_user["conv_config"] # None =>
            \A f \in Range(ConvConfigFields) :
                NestedGet(mg_final["conv_config"], f) =
                    IF mg_user["conv_config"][f] # None
                    THEN mg_user["conv_config"][f]
                    ELSE NestedGet(MergeBase["conv_config"], f))

(***************************************************************************)
(* SpecSerialize: _convert_chat_config_to_json_str on its own              *)
(***************************************************************************)
\* the conv_template names passed as the resolved template
TemplateNames == {Value("doc"), Value("vicuna_v1.1")}

InitSerialize ==
    /\ GenIdle
    /\ RcIdle
    /\ MgIdle
    /\ RsIdle
    /\ SsIdle
    /\ ExtIdle
    /\ sz_pc = "input"
    /\ sz_chat_config \in UserChatConfigs
    /\ sz_conv_template \in TemplateNames
    /\ sz_json_str = None
    /\ sz_object = sz_chat_config

\* json_str = _convert_chat_config_to_json_str(chat_config, conv_template);
\* sz_chat_config keeps the argument as the caller passed it, sz_object is the
\* caller's object, whose conv_template line 435 assigns
Serialize ==
    /\ sz_pc = "input"
    /\ sz_json_str' = ConvertChatConfigToJsonStr(sz_chat_config, sz_conv_template)
    /\ sz_object' = ChatConfigAfterConvert(sz_object, sz_conv_template)
    /\ sz_pc' = "done"
    /\ UNCHANGED <<sz_chat_config, sz_conv_template, gen_vars, rc_vars, mg_vars, rs_vars, ss_vars, ext_vars>>

NextSerialize == Serialize

SpecSerialize == InitSerialize /\ [][NextSerialize]_vars

\* the fields of a ChatConfig or ConvConfig that are not None
SetFields(config) == {f \in DOMAIN config : config[f] # None}

(***************************************************************************)
(* C11: the JSON text has a key for conv_template, whose value is the      *)
(* resolved name T (whatever the override carried), and otherwise exactly  *)
(* the keys of the top-level fields set in the override, each with the     *)
(* override's value; its conv_config, when the override has one, has       *)
(* exactly the keys of the nested fields set; so no top-level or nested    *)
(* field that is unset has a key.  For the override None the text is "".   *)
(***************************************************************************)
C11_SerializeOmitsUnset ==
    sz_pc = "done" =>
        /\ sz_chat_config = None => sz_json_str = Value("")
        /\ sz_chat_config # None =>
              /\ DOMAIN sz_json_str = {"json"}
              /\ Keys(sz_json_str.json) = SetFields(sz_chat_config) \cup {"conv_template"}
              /\ Lookup(sz_json_str.json, "conv_template") = sz_conv_template
              /\ \A f \in SetFields(sz_chat_config) \ {"conv_template", "conv_config"} :
                    Lookup(sz_json_str.json, f) = sz_chat_config[f]
              /\ sz_chat_config["conv_config"] # None =>
                    LET conv_dict == Lookup(sz_json_str.json, "conv_config")
                    IN  /\ Keys(conv_dict) = SetFields(sz_chat_config["conv_config"])
                        /\ \A f \in Keys(conv_dict) :
                              Lookup(conv_dict, f) = sz_chat_config["conv_config"][f]

\* an override that carries its own conv_template, sets top_p, leaves
\* temperature unset and has a conv_config with one field set and others unset
C11_Witness ==
    /\ sz_pc = "done"
    /\ sz_chat_config # None
    /\ sz_chat_config["conv_template"] = Value("user")
    /\ sz_conv_template = Value("doc")
    /\ sz_chat_config["top_p"] # None
    /\ sz_chat_config["temperature"] = None
    /\ sz_chat_config["conv_config"] # None
    /\ SetFields(sz_chat_config["conv_config"]) = {"system"}

(***************************************************************************)
(* Replaying the deltas of a generate call                                 *)
(***************************************************************************)
RECURSIVE LeadingErasures(_)
\* the number of erase instructions "\b \b" a delta starts with
LeadingErasures(message) ==
    IF Len(message) >= 3 /\ SubSeq(message, 1, 3) = EraseStr
    THEN 1 + LeadingErasures(SubSeq(message, 4, Len(message)))
    ELSE 0

\* the output after one delta: each erase instruction removes the last
\* byte-character, then the appended byte-characters are added
ApplyDelta(output, message) ==
    LET n == LeadingErasures(message)
    IN  SubSeq(output, 1, Len(output) - n) \o SubSeq(message, 3 * n + 1, Len(message))

\* the deltas forwarded so far, in order
Deltas == SelectSeq(log, IsDelta)

RECURSIVE ReplayDeltas(_)
\* the output after the first k deltas, starting from the empty output
ReplayDeltas(k) ==
    IF k = 0 THEN <<>> ELSE ApplyDelta(ReplayDeltas(k - 1), Deltas[k].message)

(***************************************************************************)
(* C17: every delta follows a get_message call, and replaying the first k  *)
(* deltas on an empty output gives the bytes of the k-th message fetched;  *)
(* when a generate call with at least one decode step has returned, the    *)
(* replayed output is the bytes of the backend's final message.            *)
(***************************************************************************)
C17_ReplayGivesSnapshot ==
    /\ Len(Deltas) = Len(Snapshots)
    /\ \A k \in 1..Len(Deltas) : ReplayDeltas(k) = Utf8Encode(Snapshots[k].ret)
    /\ (pc = "done" /\ DecodePos # {}) =>
          ReplayDeltas(Len(Deltas)) = Utf8Encode(be_message)

\* the backend rewrote "Hi" into "H" + e-acute: the second delta erases one
\* byte and appends the two bytes of the e-acute; a third delta followed
C17_Witness ==
    /\ pc = "done"
    /\ Len(Deltas) >= 3
    /\ Snapshots[1].ret = StrHi
    /\ Snapshots[2].ret = StrHe
    /\ Deltas[2].message = <<8, 32, 8, 195, 169>>

(***************************************************************************)
(* C20: every decode call directly follows a loop-head stop query that     *)
(* returned not-stopped, and every such query is followed by one decode    *)
(* call; a stop query is made between any two decode calls and after the   *)
(* last one; no decode call follows a stop query that returned stopped.    *)
(***************************************************************************)
StoppedPos == {k \in 1..Len(log) : log[k].op = "stopped"}
\* the stop queries of the while condition: those not made right after a decode
HeadNotStopped ==
    {k \in StoppedPos : log[k - 1].op # "decode" /\ ~Stopped(log[k].ret)}

C20_DecodeOncePerIteration ==
    /\ \A d \in DecodePos : d - 1 \in HeadNotStopped
    /\ \A k \in HeadNotStopped :
          IF k = Len(log) THEN pc = "decode" ELSE log[k + 1].op = "decode"
    /\ Cardinality(DecodePos) =
          Cardinality(HeadNotStopped) - (IF pc = "decode" THEN 1 ELSE 0)
    /\ \A d \in DecodePos :
          (NextDecode(d) <= Len(log) \/ pc = "done") =>
              \E k \in StoppedPos : k \in Segment(d)
    /\ \A k \in StoppedPos :
          Stopped(log[k].ret) => \A d \in DecodePos : d < k

\* a call that decoded three times at interval 2, so that stop queries were
\* made both in the while condition and inside the loop body
C20_Witness ==
    /\ pc = "done"
    /\ progress_callback.interval = 2
    /\ Cardinality(DecodePos) = 3
    /\ \E k \in StoppedPos : log[k - 1].op = "decode" /\ ~Stopped(log[k].ret)

(***************************************************************************)
(* SpecResolve: _get_model_path on its own                                 *)
(***************************************************************************)
\* the model arguments passed
Models == {"vicuna", "Llama-2"}

\* the file systems: each candidate of the model is absent, a folder without
\* mlc-chat-config.json, or a folder with it
FileSystems(model) ==
    LET cands == Range(ModelCandidatePaths(model))
    IN  {[files |-> {Join(c, <<"mlc-chat-config.json">>) : c \in with_file},
          dirs |-> folders] :
            <<folders, with_file>> \in
                {<<ds, fs>> \in (SUBSET cands) \X (SUBSET cands) : fs \subseteq ds}}

InitResolve ==
    /\ GenIdle
    /\ RcIdle
    /\ MgIdle
    /\ SzIdle
    /\ SsIdle
    /\ ExtIdle
    /\ rs_pc = "input"
    /\ rs_model \in Models
    /\ rs_fs \in FileSystems(rs_model)
    /\ rs_result = None

\* _get_model_path(model)
Resolve ==
    /\ rs_pc = "input"
    /\ rs_result' = GetModelPath(rs_model, rs_fs)
    /\ rs_pc' = "done"
    /\ UNCHANGED <<rs_model, rs_fs, gen_vars, rc_vars, mg_vars, sz_vars, ss_vars, ext_vars>>

NextResolve == Resolve

SpecResolve == InitResolve /\ [][NextResolve]_vars

\* sub occurs in the str msg
Contains(msg, sub) ==
    \E k \in 0..(Len(msg) - Len(sub)) : SubSeq(msg, k + 1, k + Len(sub)) = sub

\* the message has a line for the path p, as given or made absolute
Enumerates(msg, p) ==
    \/ Contains(msg, <<"- ">> \o p \o <<"\n">>)
    \/ Contains(msg, <<"- ">> \o Abspath(p) \o <<"\n">>)

\* no candidate of rs_model has mlc-chat-config.json under it
NoCandidateHasConfig ==
    \A k \in 1..Len(ModelCandidatePaths(rs_model)) :
        ~IsFile(rs_fs, Join(ModelCandidatePaths(rs_model)[k], <<"mlc-chat-config.json">>))

\* some candidate of rs_model is a folder
SomeCandidateIsFolder ==
    \E k \in 1..Len(ModelCandidatePaths(rs_model)) : IsDir(rs_fs, ModelCandidatePaths(rs_model)[k])

(***************************************************************************)
(* C16: when none of the 4 candidate paths of the model has the config     *)
(* document, _get_model_path raises an error whose message has a line for  *)
(* each of the 4 candidates, both when some candidate is a folder and when *)
(* none is, and the message of one case is never the message of the other. *)
(***************************************************************************)
C16_ErrorListsAllCandidates ==
    (rs_pc = "done" /\ NoCandidateHasConfig) =>
        /\ ~rs_result.ok
        /\ \A k \in 1..Len(ModelCandidatePaths(rs_model)) :
               Enumerates(rs_result.error.message, ModelCandidatePaths(rs_model)[k])
        /\ \A other \in FileSystems(rs_model) :
               (FirstModelFolder(rs_model, other, 1) = 0
                    /\ (ValidDirs(rs_model, other) = <<>>) = SomeCandidateIsFolder)
                   => GetModelPath(rs_model, other).error.message # rs_result.error.message

(***************************************************************************)
(* SpecSession: ChatModule.__init__ step by step, then reset_chat and      *)
(* _prefill on the constructed object, against a backend that keeps a      *)
(* configuration and a conversation history                                *)
(***************************************************************************)
MaxResets == 2

\* a path held in an attribute or passed as an argument that may be None
Path(p) == [path |-> p]

\* fcreate_chat_mod(device_type, device_id)
LlmChatCreateCall(device_type, device_id) ==
    [op |-> "llm_chat_create", device_type |-> device_type, device_id |-> device_id]

\* the chat module fcreate_chat_mod returns
ChatMod(device_type, device_id) == [device_type |-> device_type, device_id |-> device_id]

\* self.reload_func(lib, model_path, app_config_json)
ReloadFuncCall(lib, model_path, app_config_json) ==
    [op |-> "reload", lib |-> lib, model_path |-> model_path,
     app_config_json |-> app_config_json]

\* self.reset_chat_func()
ResetChatFuncCall == [op |-> "reset_chat"]

\* self.load_json_override_func(config_str, partial_update)
LoadJsonOverrideFuncCall(config_str, partial_update) ==
    [op |-> "load_json_override", config_str |-> config_str,
     partial_update |-> partial_update]

\* the backend's configuration read from a config document: every field of
\* the document, the fields of conv_config one by one
BackendConfigOf(json_object) ==
    [ChatConfig(json_object) EXCEPT
        !["conv_config"] =
            ConvConfig(IF "conv_config" \in DOMAIN json_object
                       THEN json_object["conv_config"] ELSE <<>>)]

\* the backend applies a JSON text as a partial update: a field named in the
\* text takes the text's value, conv_config field by field, any other field
\* is kept
BackendLoadJsonOverride(config, config_str) ==
    IF config_str = Value("") THEN config
    ELSE LET d == config_str.json
         IN  [f \in DOMAIN config |->
                 IF f \notin Keys(d) THEN config[f]
                 ELSE IF f = "conv_config"
                 THEN [g \in DOMAIN config[f] |->
                          IF g \in Keys(Lookup(d, f)) THEN Lookup(Lookup(d, f), g)
                          ELSE config[f][g]]
                 ELSE Lookup(d, f)]

\* the backend a new chat module is: no model loaded, no conversation
BackendCreate == [config |-> None, history |-> 0]

\* the backend after reset_chat: the conversation history is cleared
BackendResetChat(be) == [be EXCEPT !.history = 0]

\* the backend after prefill: the input is one more turn of the conversation
BackendPrefill(be) == [be EXCEPT !.history = @ + 1]

\* the backend after load_json_override(config_str, True)
BackendApplyOverride(be, config_str) ==
    [be EXCEPT !.config = BackendLoadJsonOverride(be.config, config_str)]

\* the backend after reload: the document under model_path, overridden by
\* app_config_json, and an empty conversation
BackendReload(json_object, app_config_json) ==
    [config |-> BackendLoadJsonOverride(BackendConfigOf(json_object), app_config_json),
     history |-> 0]

\* the attributes of a ChatModule before __init__ has assigned any
NoAttributes ==
    [device |-> None, chat_mod |-> None, model_path |-> None, config_file_path |-> None,
     chat_config |-> None, lib_path |-> None]

\* the chat_config arguments passed to ChatModule(...) and to reset_chat
SessionOverrides ==
    {None,
     ChatConfig([temperature |-> Value("0.5")]),
     ChatConfig([top_p |-> Value("0.8")]),
     ChatConfig([conv_template |-> Value("vicuna_v1.1")]),
     ChatConfig([conv_config |-> ConvConfig([system |-> Value("sys")])])}

\* the contents of mlc-chat-config.json: every scalar field, with or without
\* conv_template, with or without a conv_config dict
SessionDocs ==
    LET scalar == Range(ChatConfigFields) \ {"conv_config"}
        plain == [f \in scalar |-> DocValue]
    IN  {plain,
         [f \in scalar \ {"conv_template"} |-> DocValue],
         [f \in scalar \cup {"conv_config"} |->
             IF f = "conv_config" THEN [stop_str |-> DocValue] ELSE DocValue]}

\* the lib_path arguments
SessionLibPaths == {None, Path(<<"libs", "/", "model.so">>)}

\* the file systems of the machine: nothing; a folder ./<model> without the
\* config document; the model under dist/prebuilt without any library; the
\* same with the cuda library under dist/prebuilt/lib and libs/model.so
SessionFileSystems(model) ==
    LET folder == ModelCandidatePaths(model)[2]
        chat_file == Join(folder, <<"mlc-chat-config.json">>)
    IN  {[files |-> {}, dirs |-> {}],
         [files |-> {}, dirs |-> {ModelCandidatePaths(model)[1]}],
         [files |-> {chat_file}, dirs |-> {folder}],
         [files |-> {chat_file, <<"dist", "/", "prebuilt", "/", "lib", "/", "doc", "-", "cuda", ".so">>,
                     <<"libs", "/", "model.so">>},
          dirs |-> {folder}]}

SessionDeviceNames == {"cuda", "auto", "tpu"}
SessionPlatforms == {"linux", "darwin"}
\* the devices whose .exist is true: none, or one and all that
\* _detect_local_device asks about after it
SessionExist ==
    {{}, {"opencl"}, {"vulkan", "opencl"}, {"cuda", "vulkan", "opencl"},
     {"rocm", "cuda", "vulkan", "opencl"}, {"metal", "rocm", "cuda", "vulkan", "opencl"}}

\* a call on the ChatModule: its name, its chat_config argument as passed, and
\* the attributes, the backend and the log as the call found them
Call(op, chat_config, self, be, calls) ==
    [op |-> op, chat_config |-> chat_config, self |-> self, be |-> be, log |-> calls]

InitSession ==
    /\ GenIdle
    /\ RcIdle
    /\ MgIdle
    /\ SzIdle
    /\ RsIdle
    /\ ExtIdle
    /\ ss_pc = "device"
    /\ ss_args \in [model : {"vicuna"}, device_name : SessionDeviceNames, device_id : {0},
                    chat_config : SessionOverrides, lib_path : SessionLibPaths]
    /\ ss_env \in [fs : SessionFileSystems("vicuna"), platform : SessionPlatforms,
                   exist : SessionExist]
    /\ ss_doc \in SessionDocs \cup {Malformed}
    /\ ss_self = NoAttributes
    /\ ss_device_name = ss_args.device_name
    /\ ss_error = None
    /\ ss_call = Call("__init__", ss_args.chat_config, NoAttributes, None, <<>>)
    /\ ss_log = <<>>
    /\ ss_be = None
    /\ ss_resets = 0

\* raise error out of __init__
InitRaises(error) ==
    /\ ss_error' = error
    /\ ss_pc' = "failed"

\* 1. Get self.device
Init_device ==
    /\ ss_pc = "device"
    /\ LET r == GetDevice(ss_args.device_name, ss_args.device_id, ss_env.exist)
       IN  IF r.ok
           THEN /\ ss_self' = [ss_self EXCEPT !.device = r.device]
                /\ ss_device_name' = r.device_name
                /\ ss_pc' = "create"
                /\ UNCHANGED ss_error
           ELSE /\ InitRaises(r.error)
                /\ UNCHANGED <<ss_self, ss_device_name>>
    /\ UNCHANGED <<ss_args, ss_env, ss_doc, ss_call, ss_log, ss_be, ss_resets,
                   gen_vars, rc_vars, mg_vars, sz_vars, rs_vars, ext_vars>>

\* mutant: the model folder is looked up without a chat module being created
Init_create_skipped ==
    /\ ss_pc = "create"
    /\ ss_pc' = "model_path"
    /\ UNCHANGED <<ss_args, ss_env, ss_doc, ss_self, ss_device_name, ss_error, ss_call,
                   ss_log, ss_be, ss_resets, gen_vars, rc_vars, mg_vars, sz_vars, rs_vars, ext_vars>>

\* 2. Populate chat module and their functions
Init_create ==
    /\ ss_pc = "create"
    /\ ss_log' = Append(ss_log, LlmChatCreateCall(ss_self.device.device_type, ss_args.device_id))
    /\ ss_self' = [ss_self EXCEPT
                      !.chat_mod = ChatMod(ss_self.device.device_type, ss_args.device_id)]
    /\ ss_be' = BackendCreate
    /\ ss_pc' = "model_path"
    /\ UNCHANGED <<ss_args, ss_env, ss_doc, ss_device_name, ss_error, ss_call, ss_resets,
                   gen_vars, rc_vars, mg_vars, sz_vars, rs_vars, ext_vars>>

\* 3. Look up model_path
Init_model_path ==
    /\ ss_pc = "model_path"
    /\ LET r == GetModelPath(ss_args.model, ss_env.fs)
       IN  IF r.ok
           THEN /\ ss_self' = [ss_self EXCEPT !.model_path = Path(r.model_path),
                                              !.config_file_path = Path(r.chat_file)]
                /\ ss_pc' = "chat_config"
                /\ UNCHANGED ss_error
           ELSE /\ InitRaises(r.error)
                /\ UNCHANGED ss_self
    /\ UNCHANGED <<ss_args, ss_env, ss_doc, ss_device_name, ss_call, ss_log, ss_be,
                   ss_resets, gen_vars, rc_vars, mg_vars, sz_vars, rs_vars, ext_vars>>

\* 4. Instantiate chat_config
Init_chat_config ==
    /\ ss_pc = "chat_config"
    /\ LET r == LoadJson(ss_doc)
       IN  IF r.ok
           THEN /\ ss_self' = [ss_self EXCEPT
                                  !.chat_config = GetChatConfig(r.json_object,
                                                                ss_args.chat_config)]
                /\ ss_pc' = "lib"
                /\ UNCHANGED ss_error
           ELSE /\ InitRaises(r.error)
                /\ UNCHANGED ss_self
    /\ UNCHANGED <<ss_args, ss_env, ss_doc, ss_device_name, ss_call, ss_log, ss_be,
                   ss_resets, gen_vars, rc_vars, mg_vars, sz_vars, rs_vars, ext_vars>>

\* 5. Look up model library
Init_lib ==
    /\ ss_pc = "lib"
    /\ LET r == GetLibModule(ss_args.model, ss_self.model_path.path, ss_self.chat_config,
                             ss_args.lib_path, ss_device_name,
                             ss_self.config_file_path.path, ss_env.platform, ss_env.fs)
       IN  IF r.ok
           THEN /\ ss_self' = [ss_self EXCEPT !.lib_path = r.module]
                /\ ss_pc' = "reload"
                /\ UNCHANGED ss_error
           ELSE /\ InitRaises(r.error)
                /\ UNCHANGED ss_self
    /\ UNCHANGED <<ss_args, ss_env, ss_doc, ss_device_name, ss_call, ss_log, ss_be,
                   ss_resets, gen_vars, rc_vars, mg_vars, sz_vars, rs_vars, ext_vars>>

\* mutant: the merged self.chat_config is serialized, not the user's override
Init_reload_mergedConfig ==
    /\ ss_pc = "reload"
    /\ LET user_chat_config_json_str ==
               ConvertChatConfigToJsonStr(ss_self.chat_config,
                                          ss_self.chat_config["conv_template"])
       IN  /\ ss_log' = Append(ss_log, ReloadFuncCall(ss_self.lib_path, ss_self.model_path,
                                                      user_chat_config_json_str))
           /\ ss_be' = BackendReload(ss_doc, user_chat_config_json_str)
    /\ ss_args' = [ss_args EXCEPT
                      !.chat_config =
                          ChatConfigAfterConvert(ss_args.chat_config,
                                                 ss_self.chat_config["conv_template"])]
    /\ ss_pc' = "ready"
    /\ UNCHANGED <<ss_env, ss_doc, ss_self, ss_device_name, ss_error, ss_call, ss_resets,
                   gen_vars, rc_vars, mg_vars, sz_vars, rs_vars, ext_vars>>

\* 6. Call reload; the caller's chat_config object has its conv_template set
\* by _convert_chat_config_to_json_str
Init_reload ==
    /\ ss_pc = "reload"
    /\ LET user_chat_config_json_str ==
               ConvertChatConfigToJsonStr(ss_args.chat_config,
                                          ss_self.chat_config["conv_template"])
       IN  /\ ss_log' = Append(ss_log, ReloadFuncCall(ss_self.lib_path, ss_self.model_path,
                                                      user_chat_config_json_str))
           /\ ss_be' = BackendReload(ss_doc, user_chat_config_json_str)
    /\ ss_args' = [ss_args EXCEPT
                      !.chat_config =
                          ChatConfigAfterConvert(ss_args.chat_config,
                                                 ss_self.chat_config["conv_template"])]
    /\ ss_pc' = "ready"
    /\ UNCHANGED <<ss_env, ss_doc, ss_self, ss_device_name, ss_error, ss_call, ss_resets,
                   gen_vars, rc_vars, mg_vars, sz_vars, rs_vars, ext_vars>>

\* mutant: the merged chat_config is serialized, not the override passed in
ResetChat_mergedPayload(chat_config) ==
    /\ ss_pc = "ready"
    /\ ss_resets < MaxResets
    /\ ss_resets' = ss_resets + 1
    /\ ss_call' = Call("reset_chat", chat_config, ss_self, ss_be, ss_log)
    /\ IF chat_config = None
       THEN /\ ss_log' = Append(ss_log, ResetChatFuncCall)
            /\ ss_be' = BackendResetChat(ss_be)
            /\ ss_error' = None
            /\ UNCHANGED ss_self
       ELSE LET r == LoadJson(ss_doc)
            IN  IF r.ok
                THEN LET final == GetChatConfig(r.json_object, chat_config)
                         user_chat_config_json_str ==
                             ConvertChatConfigToJsonStr(final, final["conv_template"])
                     IN  /\ ss_self' = [ss_self EXCEPT !.chat_config = final]
                         /\ ss_log' = ss_log \o
                                <<ResetChatFuncCall,
                                  LoadJsonOverrideFuncCall(user_chat_config_json_str, TRUE)>>
                         /\ ss_be' = BackendApplyOverride(BackendResetChat(ss_be),
                                                      user_chat_config_json_str)
                         /\ ss_error' = None
                ELSE /\ ss_log' = Append(ss_log, ResetChatFuncCall)
                     /\ ss_be' = BackendResetChat(ss_be)
                     /\ ss_error' = r.error
                     /\ UNCHANGED ss_self
    /\ UNCHANGED <<ss_pc, ss_args, ss_env, ss_doc, ss_device_name,
                   gen_vars, rc_vars, mg_vars, sz_vars, rs_vars, ext_vars>>

\* mutant: without an override chat_config is read again from the document
ResetChat_alwaysMerge(chat_config) ==
    /\ ss_pc = "ready"
    /\ ss_resets < MaxResets
    /\ ss_resets' = ss_resets + 1
    /\ ss_call' = Call("reset_chat", chat_config, ss_self, ss_be, ss_log)
    /\ ss_doc # Malformed
    /\ IF chat_config = None
       THEN /\ ss_log' = Append(ss_log, ResetChatFuncCall)
            /\ ss_be' = BackendResetChat(ss_be)
            /\ ss_error' = None
            /\ ss_self' = [ss_self EXCEPT !.chat_config = GetChatConfig(ss_doc, None)]
       ELSE LET r == LoadJson(ss_doc)
            IN  IF r.ok
                THEN LET final == GetChatConfig(r.json_object, chat_config)
                         user_chat_config_json_str ==
                             ConvertChatConfigToJsonStr(chat_config, final["conv_template"])
                     IN  /\ ss_self' = [ss_self EXCEPT !.chat_config = final]
                         /\ ss_log' = ss_log \o
                                <<ResetChatFuncCall,
                                  LoadJsonOverrideFuncCall(user_chat_config_json_str, TRUE)>>
                         /\ ss_be' = BackendApplyOverride(BackendResetChat(ss_be),
                                                      user_chat_config_json_str)
                         /\ ss_error' = None
                ELSE /\ ss_log' = Append(ss_log, ResetChatFuncCall)
                     /\ ss_be' = BackendResetChat(ss_be)
                     /\ ss_error' = r.error
                     /\ UNCHANGED ss_self
    /\ UNCHANGED <<ss_pc, ss_args, ss_env, ss_doc, ss_device_name,
                   gen_vars, rc_vars, mg_vars, sz_vars, rs_vars, ext_vars>>

\* reset_chat(chat_config) on the constructed ChatModule
ResetChat(chat_config) ==
    /\ ss_pc = "ready"
    /\ ss_resets < MaxResets
    /\ ss_resets' = ss_resets + 1
    /\ ss_call' = Call("reset_chat", chat_config, ss_self, ss_be, ss_log)
    /\ IF chat_config = None
       THEN /\ ss_log' = Append(ss_log, ResetChatFuncCall)
            /\ ss_be' = BackendResetChat(ss_be)
            /\ ss_error' = None
            /\ UNCHANGED ss_self
       ELSE LET r == LoadJson(ss_doc)
            IN  IF r.ok
                THEN LET final == GetChatConfig(r.json_object, chat_config)
                         user_chat_config_json_str ==
                             ConvertChatConfigToJsonStr(chat_config, final["conv_template"])
                     IN  /\ ss_self' = [ss_self EXCEPT !.chat_config = final]
                         /\ ss_log' = ss_log \o
                                <<ResetChatFuncCall,
                                  LoadJsonOverrideFuncCall(user_chat_config_json_str, TRUE)>>
                         /\ ss_be' = BackendApplyOverride(BackendResetChat(ss_be),
                                                      user_chat_config_json_str)
                         /\ ss_error' = None
                ELSE /\ ss_log' = Append(ss_log, ResetChatFuncCall)
                     /\ ss_be' = BackendResetChat(ss_be)
                     /\ ss_error' = r.error
                     /\ UNCHANGED ss_self
    /\ UNCHANGED <<ss_pc, ss_args, ss_env, ss_doc, ss_device_name,
                   gen_vars, rc_vars, mg_vars, sz_vars, rs_vars, ext_vars>>

Reset_chat == \E chat_config \in SessionOverrides : ResetChat(chat_config)

\* _prefill(input) on the constructed ChatModule: the backend takes the input
\* into its conversation
Session_prefill ==
    /\ ss_pc = "ready"
    /\ ss_be.history = 0
    /\ ss_call' = Call("_prefill", None, ss_self, ss_be, ss_log)
    /\ ss_log' = Append(ss_log, Prefill("hello"))
    /\ ss_be' = BackendPrefill(ss_be)
    /\ ss_error' = None
    /\ UNCHANGED <<ss_pc, ss_args, ss_env, ss_doc, ss_self, ss_device_name, ss_resets,
                   gen_vars, rc_vars, mg_vars, sz_vars, rs_vars, ext_vars>>

\* the machine: mlc-chat-config.json is overwritten with text that is not JSON
Damage_config ==
    /\ ss_pc = "ready"
    /\ ss_doc # Malformed
    /\ ss_doc' = Malformed
    /\ UNCHANGED <<ss_pc, ss_args, ss_env, ss_self, ss_device_name, ss_error, ss_call,
                   ss_log, ss_be, ss_resets, gen_vars, rc_vars, mg_vars, sz_vars, rs_vars, ext_vars>>

NextSession ==
    \/ Init_device
    \/ Init_create
    \/ Init_model_path
    \/ Init_chat_config
    \/ Init_lib
    \/ Init_reload
    \/ Reset_chat
    \/ Session_prefill
    \/ Damage_config

SpecSession == InitSession /\ [][NextSession]_vars

\* the calls of the log with the given op
CallsOf(op) == SelectSeq(ss_log, LAMBDA e : e.op = op)

\* the calls the last call on the ChatModule has made
NewCalls == SubSeq(ss_log, Len(ss_call.log) + 1, Len(ss_log))

\* __init__ has returned and no other call was made since
Constructed == ss_pc = "ready" /\ ss_call.op = "__init__"

\* the last call was reset_chat
AfterReset == ss_pc = "ready" /\ ss_call.op = "reset_chat"

(***************************************************************************)
(* C15: when a resolution step of __init__ (device, model folder, config,  *)
(* library) fails, the error is raised and reload is never called; when    *)
(* all succeed, reload is called exactly once, as the last step, with the  *)
(* library found, the model path found and the serialization of the user's *)
(* override under the merged conv_template.                                *)
(***************************************************************************)
C15_ReloadOnceAfterResolution ==
    /\ ss_pc = "failed" => ss_error # None /\ CallsOf("reload") = <<>>
    /\ ss_pc \notin {"off", "failed", "ready"} => CallsOf("reload") = <<>>
    /\ ss_pc = "ready" =>
           /\ Len(CallsOf("reload")) = 1
           /\ ss_log[2].op = "reload"
           /\ ss_log[2].lib = ss_self.lib_path
           /\ ss_log[2].model_path = ss_self.model_path
           /\ ss_self.lib_path # None /\ ss_self.model_path # None
    /\ (Constructed /\ ss_doc # Malformed) =>
           /\ Len(ss_log) = 2
           /\ ss_log[2].app_config_json =
                  ConvertChatConfigToJsonStr(
                      ss_call.chat_config,
                      GetChatConfig(ss_doc, ss_call.chat_config)["conv_template"])

C15_Witness ==
    /\ Constructed
    /\ ss_doc # Malformed
    /\ ss_call.chat_config # None
    /\ ss_call.chat_config["temperature"] # None
    /\ ss_log[2].op = "reload"
    /\ "temperature" \in Keys(ss_log[2].app_config_json.json)

\* __init__ raised FileNotFoundError: no model folder or no model library
NotFoundRaised == ss_pc = "failed" /\ ss_error.type = "FileNotFoundError"

(***************************************************************************)
(* C19, as stated: __init__ runs device resolution, model folder lookup,   *)
(* config load and merge, library lookup, chat module creation, reload in  *)
(* this order: a chat module exists only once the model folder and the     *)
(* library are found, and none exists when __init__ fails with model or    *)
(* library not found.                                                      *)
(***************************************************************************)
C19_BackendCreatedAfterResolution ==
    /\ ss_self.chat_mod # None =>
           ss_self.model_path # None /\ ss_self.lib_path # None
    /\ NotFoundRaised =>
           ss_self.chat_mod = None /\ CallsOf("llm_chat_create") = <<>>

(***************************************************************************)
(* C19, amended: __init__ runs device resolution, chat module creation,    *)
(* model folder lookup, config load and merge, library lookup, reload in   *)
(* this order: each step has run only if the one before it has, the chat   *)
(* module is created exactly once and before the model folder is looked    *)
(* up, so it exists when __init__ fails with model or library not found    *)
(* (no reload having been called on it) and does not exist when __init__   *)
(* fails with an invalid device name.                                      *)
(***************************************************************************)
C19_StepOrder ==
    ss_pc # "off" =>
        /\ ss_self.chat_mod # None => ss_self.device # None
        /\ ss_self.model_path # None => ss_self.chat_mod # None
        /\ ss_self.chat_config # None =>
               ss_self.model_path # None /\ ss_self.config_file_path # None
        /\ ss_self.lib_path # None => ss_self.chat_config # None
        /\ CallsOf("reload") # <<>> => ss_self.lib_path # None
        /\ Len(CallsOf("llm_chat_create")) = (IF ss_self.chat_mod # None THEN 1 ELSE 0)
        /\ ss_self.chat_mod # None => ss_log[1].op = "llm_chat_create"
        /\ NotFoundRaised => ss_self.chat_mod # None /\ CallsOf("reload") = <<>>
        /\ (ss_pc = "failed" /\ ss_error.type = "ValueError") =>
               ss_self.chat_mod = None /\ ss_log = <<>>

C19_Witness ==
    /\ NotFoundRaised
    /\ ss_self.chat_config # None
    /\ ss_self.lib_path = None
    /\ ss_self.chat_mod # None

\* the conv_template the merge of the document and the override O resolves to
ResolvedTemplate(doc, O) ==
    IF O["conv_template"] # None THEN O["conv_template"] ELSE NestedGet(doc, "conv_template")

(***************************************************************************)
(* C12: a reset_chat with an override O whose re-merge succeeds calls the  *)
(* backend's load_json_override exactly once, right after its reset_chat,  *)
(* with partial_update true and a text whose keys are the fields O sets    *)
(* and conv_template, valued by O and by the resolved conv_template; a     *)
(* field only the override given to __init__ sets is not in the text.      *)
(***************************************************************************)
C12_ResetOverridePayload ==
    (AfterReset /\ ss_call.chat_config # None /\ ss_error = None /\ ss_doc # Malformed) =>
        LET O == ss_call.chat_config
            resolved == ResolvedTemplate(ss_doc, O)
        IN  /\ Len(NewCalls) = 2
            /\ NewCalls[1] = ResetChatFuncCall
            /\ NewCalls[2].op = "load_json_override"
            /\ NewCalls[2].partial_update = TRUE
            /\ LET d == NewCalls[2].config_str.json
               IN  /\ Keys(d) = (SetFields(O) \ {"conv_template"})
                                   \cup (IF resolved # None THEN {"conv_template"} ELSE {})
                   /\ \A f \in Keys(d) \ {"conv_template", "conv_config"} :
                          Lookup(d, f) = O[f]
                   /\ "conv_template" \in Keys(d) => Lookup(d, "conv_template") = resolved
                   /\ "conv_config" \in Keys(d) =>
                          /\ Keys(Lookup(d, "conv_config")) = SetFields(O["conv_config"])
                          /\ \A g \in SetFields(O["conv_config"]) :
                                 Lookup(Lookup(d, "conv_config"), g) = O["conv_config"][g]
                   /\ ss_args.chat_config # None =>
                          \A f \in SetFields(ss_args.chat_config) \ {"conv_template"} :
                              f \notin SetFields(O) => f \notin Keys(d)

C12_Witness ==
    /\ AfterReset
    /\ ss_error = None
    /\ ss_doc # Malformed
    /\ ss_args.chat_config = ChatConfig([temperature |-> Value("0.5"),
                                         conv_template |-> DocValue])
    /\ ss_call.chat_config = ChatConfig([top_p |-> Value("0.8")])
    /\ Keys(NewCalls[2].config_str.json) = {"top_p", "conv_template"}

(***************************************************************************)
(* C13: a reset_chat without an override makes exactly one backend call,   *)
(* reset_chat, and leaves chat_config, model_path, config_file_path,       *)
(* lib_path and device as they were; a reset_chat with an override leaves  *)
(* model_path, config_file_path, lib_path and device as they were and      *)
(* calls no reload.                                                        *)
(***************************************************************************)
C13_ResetFrame ==
    AfterReset =>
        /\ ss_call.chat_config = None =>
               /\ NewCalls = <<ResetChatFuncCall>>
               /\ ss_self = ss_call.self
        /\ ss_call.chat_config # None =>
               /\ \A a \in {"model_path", "config_file_path", "lib_path", "device", "chat_mod"} :
                      ss_self[a] = ss_call.self[a]
               /\ \A k \in 1..Len(NewCalls) : NewCalls[k].op # "reload"

C13_Witness ==
    /\ AfterReset
    /\ ss_call.chat_config = None
    /\ ss_resets = 2
    /\ ss_self.chat_config # GetChatConfig(ss_doc, ss_args.chat_config)
    /\ CallsOf("load_json_override") # <<>>

(***************************************************************************)
(* C14: when reset_chat with an override fails in its re-merge (the config *)
(* document cannot be read or parsed), the error is raised, chat_config is *)
(* the one before the call, load_json_override is not called, and the      *)
(* conversation the backend holds is as it was before the call.            *)
(***************************************************************************)
C14_FailedResetChangesNothing ==
    (AfterReset /\ ss_call.chat_config # None /\ ss_error # None) =>
        /\ ss_self.chat_config = ss_call.self.chat_config
        /\ \A k \in 1..Len(NewCalls) : NewCalls[k].op # "load_json_override"
        /\ ss_be.history = ss_call.be.history

\* the value of a field of the recorded chat_config and of the backend's
\* configuration differ
FieldDiffers(f) ==
    IF f = "conv_config"
    THEN \E g \in Range(ConvConfigFields) :
             (IF ss_self.chat_config[f] = None THEN None
              ELSE NestedGet(ss_self.chat_config[f], g)) # ss_be.config[f][g]
    ELSE ss_self.chat_config[f] # ss_be.config[f]

(***************************************************************************)
(* C18: after a successful __init__ followed by successful reset_chat      *)
(* calls, with or without an override, every field of self.chat_config     *)
(* equals the value the backend uses, the backend applying a partial       *)
(* update by changing the fields named in the text and keeping the others. *)
(***************************************************************************)
C18_RecordedConfigIsBackendConfig ==
    (ss_pc = "ready" /\ ss_error = None) =>
        \A f \in Range(ChatConfigFields) : ~FieldDiffers(f)

(***************************************************************************)
(* SpecCalls: generate called again and again on one ChatModule; the log   *)
(* is the log of the call under way                                        *)
(***************************************************************************)
MaxCalls == 2

InitCalls ==
    /\ Init
    /\ McIdle

\* generate returns: its locals are gone, mc_prev remembers the snapshot it
\* had reached, and the caller may call generate again
Generate_return ==
    /\ pc = "done"
    /\ mc_calls + 1 < MaxCalls
    /\ mc_calls' = mc_calls + 1
    /\ mc_prev' = cur_utf8_chars
    /\ pc' = "idle"
    /\ log' = <<>>
    /\ prompt' = ""
    /\ progress_callback' = [interval |-> 2]
    /\ i' = 0
    /\ cur_utf8_chars' = <<>>
    /\ UNCHANGED <<be_message, be_stopped, rc_vars, mg_vars, sz_vars, rs_vars, ss_vars,
                   lv_vars, gx_vars, ts_vars, lb_vars, fr_vars>>

NextCalls ==
    \/ Generate_prefill
    \/ Generate_while
    \/ Generate_decode
    \/ Generate_poll
    \/ Generate_reconcile
    \/ Generate_end
    \/ Generate_return

SpecCalls == InitCalls /\ [][NextCalls]_vars

(***************************************************************************)
(* C21: in every generate call of a sequence of calls on one ChatModule,   *)
(* the first delta forwarded has no erase instruction and is the whole     *)
(* message fetched at that reconciliation, byte for byte, whatever the     *)
(* call before has streamed.                                               *)
(***************************************************************************)
C21_FirstDeltaIsWholeMessage ==
    Deltas # <<>> =>
        /\ Snapshots # <<>>
        /\ LeadingErasures(Deltas[1].message) = 0
        /\ Deltas[1].message = Utf8Encode(Snapshots[1].ret)

\* the second call forwards "Hi" whole after the first call streamed "Hi!"
C21_Witness ==
    /\ mc_calls = 1
    /\ mc_prev = Utf8Encode(StrHiBang)
    /\ Deltas # <<>>
    /\ Snapshots[1].ret = StrHi

(***************************************************************************)
(* SpecLive: one generate call against a backend that reports stopped once *)
(* lv_plan decode steps have run (0: as soon as prefill returns), or never *)
(* when lv_plan is -1; the caller's thread keeps running                   *)
(***************************************************************************)
Never == -1

\* what stopped returns once steps decode steps have run
PlannedStop(steps) == IF steps = lv_plan THEN 1 ELSE 0

InitLive ==
    /\ pc = "idle"
    /\ prompt = ""
    /\ progress_callback = [interval |-> 2]
    /\ i = 0
    /\ cur_utf8_chars = <<>>
    /\ be_message = StrEmpty
    /\ be_stopped = 0
    /\ log = <<>>
    /\ RcIdle
    /\ MgIdle
    /\ SzIdle
    /\ RsIdle
    /\ SsIdle
    /\ McIdle
    /\ GxIdle
    /\ TsIdle
    /\ LbIdle
    /\ FrIdle
    /\ lv_plan \in {Never} \cup 0..MaxSteps

\* self._prefill(prompt); i, cur_utf8_chars = 0, "".encode("utf-8")
Live_prefill ==
    /\ pc = "idle"
    /\ \E p \in Prompts, interval \in 1..MaxInterval, msg \in GenMsgs :
          /\ prompt' = p
          /\ progress_callback' = [interval |-> interval]
          /\ log' = Append(log, Prefill(p))
          /\ be_message' = msg
    /\ be_stopped' = PlannedStop(0)
    /\ i' = 0
    /\ cur_utf8_chars' = Utf8Encode(StrEmpty)
    /\ pc' = "while"
    /\ UNCHANGED <<rc_vars, mg_vars, sz_vars, rs_vars, ss_vars, ext_vars>>

\* self._decode(); the model follows the loop for MaxSteps iterations
Live_decode ==
    /\ pc = "decode"
    /\ i < MaxSteps
    /\ log' = Append(log, DecodeFuncCall)
    /\ \E msg \in GenMsgs : be_message' = msg
    /\ be_stopped' = PlannedStop(i + 1)
    /\ pc' = "poll"
    /\ UNCHANGED <<prompt, progress_callback, i, cur_utf8_chars, rc_vars, mg_vars, sz_vars, rs_vars, ss_vars, ext_vars>>

NextLive ==
    \/ Live_prefill
    \/ Generate_while
    \/ Live_decode
    \/ Generate_poll
    \/ Generate_reconcile
    \/ Generate_end

SpecLive == InitLive /\ [][NextLive]_vars /\ WF_vars(NextLive)

(***************************************************************************)
(* C22: when the backend reports stopped after finitely many decode steps, *)
(* generate eventually signals end-of-stream and returns; when the backend *)
(* never reports stopped, generate never reaches its end-of-stream call    *)
(* and never returns.                                                      *)
(***************************************************************************)
C22_ReturnsIffBackendStops ==
    /\ [](lv_plan # Never => <>(pc = "done" /\ EndPos # {}))
    /\ [](lv_plan = Never => (pc \notin {"end", "done"} /\ EndPos = {}))

C22_Witness ==
    /\ pc = "done"
    /\ lv_plan = 3
    /\ Cardinality(DecodePos) = 3
    /\ EndPos = {Len(log)}

(***************************************************************************)
(* SpecRaise: one generate call against a backend whose calls may raise    *)
(***************************************************************************)
\* the exception a backend function raises
BackendError == Exception("TVMError", <<"backend failure">>)

\* a backend call that raised
RaisedCall(op) == [op |-> op, raises |-> BackendError]

\* generate has no try: the exception leaves generate as it is
GenerateRaises(op) ==
    /\ log' = Append(log, RaisedCall(op))
    /\ gx_error' = BackendError
    /\ pc' = "raised"

InitRaise ==
    /\ pc = "idle"
    /\ prompt = ""
    /\ progress_callback = [interval |-> 2]
    /\ i = 0
    /\ cur_utf8_chars = <<>>
    /\ be_message = StrEmpty
    /\ be_stopped = 0
    /\ log = <<>>
    /\ RcIdle
    /\ MgIdle
    /\ SzIdle
    /\ RsIdle
    /\ SsIdle
    /\ ExtIdle

\* self._prefill(prompt) raises
Generate_prefill_raises ==
    /\ pc = "idle"
    /\ \E p \in Prompts, interval \in 1..MaxInterval :
          /\ prompt' = p
          /\ progress_callback' = [interval |-> interval]
    /\ GenerateRaises("prefill")
    /\ UNCHANGED <<i, cur_utf8_chars, be_message, be_stopped, rc_vars, mg_vars, sz_vars,
                   rs_vars, ss_vars, mc_vars, lv_vars, ts_vars, lb_vars, fr_vars>>

\* self._stopped() of the loop head raises
Generate_while_raises ==
    /\ pc = "while"
    /\ GenerateRaises("stopped")
    /\ UNCHANGED <<prompt, progress_callback, i, cur_utf8_chars, be_message, be_stopped,
                   rc_vars, mg_vars, sz_vars, rs_vars, ss_vars, mc_vars, lv_vars, ts_vars,
                   lb_vars, fr_vars>>

\* mutant: generate signals end-of-stream in a finally clause
Generate_decode_raises_finally ==
    /\ pc = "decode"
    /\ log' = log \o <<RaisedCall("decode"), CallbackCall(StrEmpty, TRUE)>>
    /\ gx_error' = BackendError
    /\ pc' = "raised"
    /\ UNCHANGED <<prompt, progress_callback, i, cur_utf8_chars, be_message, be_stopped,
                   rc_vars, mg_vars, sz_vars, rs_vars, ss_vars, mc_vars, lv_vars, ts_vars,
                   lb_vars, fr_vars>>

\* self._decode() raises
Generate_decode_raises ==
    /\ pc = "decode"
    /\ GenerateRaises("decode")
    /\ UNCHANGED <<prompt, progress_callback, i, cur_utf8_chars, be_message, be_stopped,
                   rc_vars, mg_vars, sz_vars, rs_vars, ss_vars, mc_vars, lv_vars, ts_vars,
                   lb_vars, fr_vars>>

\* self._stopped() of line 607 raises; it is called only off the cadence
Generate_poll_raises ==
    /\ pc = "poll"
    /\ i % progress_callback.interval # 0
    /\ GenerateRaises("stopped")
    /\ UNCHANGED <<prompt, progress_callback, i, cur_utf8_chars, be_message, be_stopped,
                   rc_vars, mg_vars, sz_vars, rs_vars, ss_vars, mc_vars, lv_vars, ts_vars,
                   lb_vars, fr_vars>>

\* self._get_message() raises
Generate_reconcile_raises ==
    /\ pc = "reconcile"
    /\ GenerateRaises("get_message")
    /\ UNCHANGED <<prompt, progress_callback, i, cur_utf8_chars, be_message, be_stopped,
                   rc_vars, mg_vars, sz_vars, rs_vars, ss_vars, mc_vars, lv_vars, ts_vars,
                   lb_vars, fr_vars>>

NextRaise ==
    \/ Generate_prefill
    \/ Generate_while
    \/ Generate_decode
    \/ Generate_poll
    \/ Generate_reconcile
    \/ Generate_end
    \/ Generate_prefill_raises
    \/ Generate_while_raises
    \/ Generate_decode_raises
    \/ Generate_poll_raises
    \/ Generate_reconcile_raises

SpecRaise == InitRaise /\ [][NextRaise]_vars

\* the positions of the backend calls that raised
RaisedPos == {k \in 1..Len(log) : "raises" \in DOMAIN log[k]}

(***************************************************************************)
(* C23: when a backend call (prefill, decode, stopped, get_message) raises *)
(* during generate, the caller gets that exception, the raising call is    *)
(* the last call generate makes, to the backend or to the callback, and    *)
(* the callback does not get the end-of-stream signal; the deltas          *)
(* forwarded before stay forwarded.  Without a raise no exception leaves   *)
(* generate.                                                               *)
(***************************************************************************)
C23_RaisePropagatesAndStops ==
    /\ pc = "raised" =>
           /\ RaisedPos = {Len(log)}
           /\ log[Len(log)].op \in {"prefill", "decode", "stopped", "get_message"}
           /\ gx_error = log[Len(log)].raises
           /\ EndPos = {}
           /\ \A k \in 1..(Len(log) - 1) :
                  log[k].op = "callback" => IsDelta(log[k])
    /\ pc # "raised" => (gx_error = None /\ RaisedPos = {})

\* decode raised after a delta had been forwarded
C23_Witness ==
    /\ pc = "raised"
    /\ log[Len(log)].op = "decode"
    /\ \E k \in 1..Len(Deltas) : Deltas[k].message = Utf8Encode(StrHi)

(***************************************************************************)
(* SpecTwo: two ChatModules, each with a backend of its own, whose         *)
(* generate calls run interleaved; each backend follows a script: what     *)
(* get_message and stopped return after prefill and after every decode     *)
(***************************************************************************)
Sessions == {1, 2}

\* what a backend holds after one step
Held(message, stopped) == [message |-> message, stopped |-> stopped]

\* the scripts of the backends: stopped at once; two decode steps; three
\* decode steps, the second rewriting the message
Scripts ==
    {<<Held(StrHi, 1)>>,
     <<Held(StrEmpty, 0), Held(StrHi, 0), Held(StrHiBang, 1)>>,
     <<Held(StrEmpty, 0), Held(StrHi, 0), Held(StrHe, 0), Held(StrHe, 1)>>}

\* the default of generate's progress_callback, one object made when the
\* class is defined and shared by every call that passes none
DefaultCallback == [interval |-> 2, shared |-> TRUE]

\* stream_to_stdout(interval), an object of the caller's own
OwnCallback(interval) == [interval |-> interval, shared |-> FALSE]

InitTwo ==
    /\ GenIdle
    /\ RcIdle
    /\ MgIdle
    /\ SzIdle
    /\ RsIdle
    /\ SsIdle
    /\ McIdle
    /\ LvIdle
    /\ GxIdle
    /\ LbIdle
    /\ FrIdle
    /\ ts_pc = [s \in Sessions |-> "idle"]
    /\ ts_i = [s \in Sessions |-> 0]
    /\ ts_cur = [s \in Sessions |-> <<>>]
    /\ ts_steps = [s \in Sessions |-> 0]
    /\ ts_script \in [Sessions -> Scripts]
    /\ ts_callback \in [Sessions -> {DefaultCallback}]
                           \cup [Sessions -> {OwnCallback(n) : n \in 1..MaxInterval}]
    /\ ts_calls = [s \in Sessions |-> <<>>]

\* what the backend of s holds now
HeldBy(s) == ts_script[s][ts_steps[s] + 1]

TwoFrame == UNCHANGED <<gen_vars, rc_vars, mg_vars, sz_vars, rs_vars, ss_vars, mc_vars,
                        lv_vars, gx_vars, lb_vars, fr_vars, ts_script, ts_callback>>

\* self._prefill(prompt); i, cur_utf8_chars = 0, "".encode("utf-8")
Two_prefill(s) ==
    /\ ts_pc[s] = "idle"
    /\ ts_i' = [ts_i EXCEPT ![s] = 0]
    /\ ts_cur' = [ts_cur EXCEPT ![s] = Utf8Encode(StrEmpty)]
    /\ ts_pc' = [ts_pc EXCEPT ![s] = "while"]
    /\ UNCHANGED <<ts_steps, ts_calls>>
    /\ TwoFrame

\* while not self._stopped():
Two_while(s) ==
    /\ ts_pc[s] = "while"
    /\ ts_pc' = [ts_pc EXCEPT ![s] = IF Stopped(HeldBy(s).stopped) THEN "end" ELSE "decode"]
    /\ UNCHANGED <<ts_i, ts_cur, ts_steps, ts_calls>>
    /\ TwoFrame

\* self._decode()
Two_decode(s) ==
    /\ ts_pc[s] = "decode"
    /\ ts_steps' = [ts_steps EXCEPT ![s] = @ + 1]
    /\ ts_pc' = [ts_pc EXCEPT ![s] = "poll"]
    /\ UNCHANGED <<ts_i, ts_cur, ts_calls>>
    /\ TwoFrame

\* if i % progress_callback.interval == 0 or self._stopped(): ... ; i += 1
Two_poll(s) ==
    /\ ts_pc[s] = "poll"
    /\ IF PollDue(ts_i[s], ts_callback[s].interval, Stopped(HeldBy(s).stopped))
       THEN /\ ts_pc' = [ts_pc EXCEPT ![s] = "reconcile"]
            /\ ts_i' = ts_i
       ELSE /\ ts_pc' = [ts_pc EXCEPT ![s] = "while"]
            /\ ts_i' = [ts_i EXCEPT ![s] = @ + 1]
    /\ UNCHANGED <<ts_cur, ts_steps, ts_calls>>
    /\ TwoFrame

\* mutant: the snapshot is one variable of the module, written by both
Two_reconcile_sharedSnapshot(s) ==
    /\ ts_pc[s] = "reconcile"
    /\ LET new_utf8_chars == Utf8Encode(HeldBy(s).message)
           print_msg == PrintMsg(ts_cur[1], new_utf8_chars)
       IN  /\ ts_cur' = [t \in Sessions |-> new_utf8_chars]
           /\ ts_calls' = [ts_calls EXCEPT ![s] = Append(@, CallbackCall(print_msg, FALSE))]
    /\ ts_i' = [ts_i EXCEPT ![s] = @ + 1]
    /\ ts_pc' = [ts_pc EXCEPT ![s] = "while"]
    /\ UNCHANGED ts_steps
    /\ TwoFrame

\* new_msg = self._get_message() ... progress_callback(message=print_msg); i += 1
Two_reconcile(s) ==
    /\ ts_pc[s] = "reconcile"
    /\ LET new_utf8_chars == Utf8Encode(HeldBy(s).message)
           print_msg == PrintMsg(ts_cur[s], new_utf8_chars)
       IN  /\ ts_cur' = [ts_cur EXCEPT ![s] = new_utf8_chars]
           /\ ts_calls' = [ts_calls EXCEPT ![s] = Append(@, CallbackCall(print_msg, FALSE))]
    /\ ts_i' = [ts_i EXCEPT ![s] = @ + 1]
    /\ ts_pc' = [ts_pc EXCEPT ![s] = "while"]
    /\ UNCHANGED ts_steps
    /\ TwoFrame

\* progress_callback(stopped=True)
Two_end(s) ==
    /\ ts_pc[s] = "end"
    /\ ts_calls' = [ts_calls EXCEPT ![s] = Append(@, CallbackCall(StrEmpty, TRUE))]
    /\ ts_pc' = [ts_pc EXCEPT ![s] = "done"]
    /\ UNCHANGED <<ts_i, ts_cur, ts_steps>>
    /\ TwoFrame

NextTwo ==
    \E s \in Sessions :
        \/ Two_prefill(s)
        \/ Two_while(s)
        \/ Two_decode(s)
        \/ Two_poll(s)
        \/ Two_reconcile(s)
        \/ Two_end(s)

SpecTwo == InitTwo /\ [][NextTwo]_vars

RECURSIVE AloneFrom(_, _, _, _, _)
\* the callback invocations of a generate call that runs alone against a
\* backend following script, from the loop head with locals idx, cur and the
\* backend after steps decode steps
AloneFrom(script, interval, idx, cur, steps) ==
    IF Stopped(script[steps + 1].stopped) THEN <<CallbackCall(StrEmpty, TRUE)>>
    ELSE LET after == script[steps + 2]
             new_utf8_chars == Utf8Encode(after.message)
         IN  IF PollDue(idx, interval, Stopped(after.stopped))
             THEN <<CallbackCall(PrintMsg(cur, new_utf8_chars), FALSE)>>
                      \o AloneFrom(script, interval, idx + 1, new_utf8_chars, steps + 1)
             ELSE AloneFrom(script, interval, idx + 1, cur, steps + 1)

\* the callback invocations of generate run alone
Alone(script, interval) == AloneFrom(script, interval, 0, <<>>, 0)

(***************************************************************************)
(* C24: with two ChatModules on backends of their own and their generate   *)
(* calls interleaved at any backend call, the callback invocations of each *)
(* are at every moment a prefix of, and at its return exactly, the         *)
(* invocations it makes when it runs alone, also when both calls use the   *)
(* shared default callback object.                                         *)
(***************************************************************************)
C24_InterleavingIsInvisible ==
    ts_pc # None =>
        \A s \in Sessions :
            /\ IsPrefix(ts_calls[s], Alone(ts_script[s], ts_callback[s].interval))
            /\ ts_pc[s] = "done" =>
                   ts_calls[s] = Alone(ts_script[s], ts_callback[s].interval)

\* both calls use the default callback and each has forwarded its first delta
\* and is about to reconcile again, the second against a rewritten message
C24_Witness ==
    /\ ts_pc # None
    /\ ts_callback = [s \in Sessions |-> DefaultCallback]
    /\ Len(ts_script[1]) = 3
    /\ Len(ts_script[2]) = 4
    /\ \A s \in Sessions : ts_pc[s] = "reconcile" /\ Len(ts_calls[s]) = 1
    /\ HeldBy(2).message = StrHe

\* the four places a model is looked for, in priority order
PriorityOrder(id) ==
    << <<id>>, <<"dist", "/", "prebuilt", "/", id>>, <<"dist", "/", id, "/", "params">>,
       <<"dist", "/", "prebuilt", "/", "mlc-chat-", id>> >>

\* the config document is under the k-th place
HasConfig(k) ==
    (PriorityOrder(rs_model)[k] \o <<"/", "mlc-chat-config.json">>) \in rs_fs.files

(***************************************************************************)
(* C25: _get_model_path probes <id>, dist/prebuilt/<id>, dist/<id>/params, *)
(* dist/prebuilt/mlc-chat-<id> in this order and returns the first that    *)
(* has the config document under it, with the path of that document; it    *)
(* fails exactly when none of the four has it.                             *)
(***************************************************************************)
C25_FirstCandidateWithConfig ==
    rs_pc = "done" =>
        /\ rs_result.ok = (\E k \in DOMAIN PriorityOrder(rs_model) : HasConfig(k))
        /\ rs_result.ok =>
               \E k \in DOMAIN PriorityOrder(rs_model) :
                   /\ HasConfig(k)
                   /\ \A j \in 1..(k - 1) : ~HasConfig(j)
                   /\ rs_result.model_path = PriorityOrder(rs_model)[k]
                   /\ rs_result.chat_file =
                          PriorityOrder(rs_model)[k] \o <<"/", "mlc-chat-config.json">>

\* the third place is returned although the fourth has the document too and
\* the first is a folder without it
C25_Witness ==
    /\ rs_pc = "done"
    /\ rs_result.ok
    /\ rs_result.model_path = <<"dist", "/", rs_model, "/", "params">>
    /\ HasConfig(4)
    /\ <<rs_model>> \in rs_fs.dirs

(***************************************************************************)
(* SpecLib: _get_lib_module on its own                                     *)
(***************************************************************************)
\* the values of sys.platform
Platforms == {"linux", "darwin", "win32"}

\* the arguments passed, with the sys.platform of the machine
LibArgs ==
    [model : {"vicuna"},
     model_path : {<<"dist", "/", "prebuilt", "/", "vicuna">>},
     chat_config : {ChatConfig([model_lib |-> Value("vicuna-q4f16")])},
     lib_path : {None, Path(<<"libs", "/", "model.so">>)},
     device_name : {"cuda"},
     config_file_path :
         {<<"dist", "/", "prebuilt", "/", "vicuna", "/", "mlc-chat-config.json">>},
     platform : Platforms]

\* the file systems: at most two of the paths the call may look at are files
LibFileSystems(args) ==
    LET paths == Range(LibCandidatePaths(args.model, args.model_path, args.chat_config,
                                         args.device_name, args.platform))
                     \cup {<<"libs", "/", "model.so">>}
    IN  {[files |-> fs, dirs |-> {}] : fs \in {x \in SUBSET paths : Cardinality(x) <= 2}}

InitLib ==
    /\ GenIdle
    /\ RcIdle
    /\ MgIdle
    /\ SzIdle
    /\ RsIdle
    /\ SsIdle
    /\ McIdle
    /\ LvIdle
    /\ GxIdle
    /\ TsIdle
    /\ FrIdle
    /\ lb_pc = "input"
    /\ lb_args \in LibArgs
    /\ lb_fs \in LibFileSystems(lb_args)
    /\ lb_probes = <<>>
    /\ lb_result = None

\* _get_lib_module(model, model_path, chat_config, lib_path, device_name,
\* config_file_path)
LibResolve ==
    /\ lb_pc = "input"
    /\ lb_result' = GetLibModule(lb_args.model, lb_args.model_path, lb_args.chat_config,
                                 lb_args.lib_path, lb_args.device_name,
                                 lb_args.config_file_path, lb_args.platform, lb_fs)
    /\ lb_probes' = LibProbes(lb_args.model, lb_args.model_path, lb_args.chat_config,
                              lb_args.lib_path, lb_args.device_name, lb_args.platform, lb_fs)
    /\ lb_pc' = "done"
    /\ UNCHANGED <<lb_args, lb_fs, gen_vars, rc_vars, mg_vars, sz_vars, rs_vars, ss_vars,
                   mc_vars, lv_vars, gx_vars, ts_vars, fr_vars>>

NextLib == LibResolve

SpecLib == InitLib /\ [][NextLib]_vars

\* the candidate list: for each platform file name in turn, that name in
\* each of the five candidate directories in turn
ExpectedCandidates ==
    LET names == CandidateLibNames(lb_args.chat_config, lb_args.device_name,
                                   lb_args.platform)
        in_dirs(name) == LibPathsOf(lb_args.model, lb_args.model_path, name)
        width == Len(in_dirs(names[1]))
    IN  [n \in 1..(width * Len(names)) |->
            in_dirs(names[((n - 1) \div width) + 1])[((n - 1) % width) + 1]]

\* the candidates that are files
ExistingCandidates ==
    {k \in 1..Len(ExpectedCandidates) : ExpectedCandidates[k] \in lb_fs.files}

(***************************************************************************)
(* C26: with a lib_path, _get_lib_module looks at that path only: it is    *)
(* loaded when it is a file, and otherwise the call fails without having   *)
(* probed a candidate; without a lib_path, the first candidate that is a   *)
(* file (each platform file name across the five candidate directories,    *)
(* in order) is loaded, none after it is probed, and when none is a file   *)
(* the call fails with a message that lists every candidate.               *)
(***************************************************************************)
C26_ExplicitPathThenCandidates ==
    lb_pc = "done" =>
        /\ lb_args.lib_path # None =>
               /\ lb_probes = <<lb_args.lib_path.path>>
               /\ lb_result.ok = (lb_args.lib_path.path \in lb_fs.files)
               /\ lb_result.ok => lb_result.module = Module(lb_args.lib_path.path)
               /\ ~lb_result.ok => lb_result.error.type = "FileNotFoundError"
        /\ lb_args.lib_path = None =>
               /\ lb_result.ok = (ExistingCandidates # {})
               /\ lb_result.ok =>
                      \E k \in ExistingCandidates :
                          /\ \A m \in ExistingCandidates : k <= m
                          /\ lb_result.module = Module(ExpectedCandidates[k])
                          /\ lb_probes = SubSeq(ExpectedCandidates, 1, k)
               /\ ~lb_result.ok =>
                      /\ lb_result.error.type = "FileNotFoundError"
                      /\ lb_probes = ExpectedCandidates
                      /\ \A k \in 1..Len(ExpectedCandidates) :
                             Contains(lb_result.error.message,
                                      <<"- ">> \o ExpectedCandidates[k] \o <<"\n">>)

\* on macOS the .dylib under model_path is loaded although a .so exists in
\* the first directory: every .dylib candidate comes before any .so candidate
C26_Witness ==
    /\ lb_pc = "done"
    /\ lb_args.lib_path = None
    /\ lb_args.platform = "darwin"
    /\ lb_result.ok
    /\ lb_result.module =
           Module(<<"dist", "/", "prebuilt", "/", "vicuna", "/", "vicuna-q4f16", "-", "cuda",
                    ".dylib">>)
    /\ <<"vicuna-q4f16", "-", "cuda", ".so">> \in lb_fs.files

\* the device names __init__ accepts besides "auto"
ExplicitDeviceNames == {"cuda", "metal", "vulkan", "rocm", "opencl"}

\* the order in which auto-detection prefers the devices
DevicePriority == <<"metal", "rocm", "cuda", "vulkan", "opencl">>

\* the positions in DevicePriority of the devices that exist
Available == {k \in DOMAIN DevicePriority : DevicePriority[k] \in ss_env.exist}

\* __init__ is past its first step
DeviceStepDone == ss_pc # "device"

(***************************************************************************)
(* C27: a device name outside cuda, metal, vulkan, rocm, opencl, auto      *)
(* makes __init__ raise the invalid-device error with no attribute set,    *)
(* no chat module created and no backend function called; with "auto" the  *)
(* device step does not raise and sets the device to the first of metal,   *)
(* rocm, cuda, vulkan, opencl that exists, or to the CPU when none does.   *)
(***************************************************************************)
C27_DeviceResolution ==
    DeviceStepDone =>
        /\ ss_args.device_name \notin ExplicitDeviceNames \cup {"auto"} =>
               /\ ss_pc = "failed"
               /\ ss_error # None
               /\ ss_error.type = "ValueError"
               /\ Contains(ss_error.message, <<"invalid device name: ", ss_args.device_name>>)
               /\ ss_self = NoAttributes
               /\ ss_be = None
               /\ ss_log = <<>>
        /\ ss_args.device_name = "auto" =>
               /\ ss_self.device # None
               /\ ss_error # None => ss_error.type # "ValueError"
               /\ Available # {} =>
                      \E k \in Available :
                          /\ \A m \in Available : k <= m
                          /\ ss_self.device = Device(DevicePriority[k], ss_args.device_id)
                          /\ ss_device_name = DevicePriority[k]
               /\ Available = {} =>
                      /\ ss_self.device = Device("cpu", ss_args.device_id)
                      /\ ss_device_name = "llvm"

\* auto-detection took rocm although cuda, vulkan and opencl exist as well,
\* and the construction went on to completion
C27_Witness ==
    /\ ss_pc = "ready"
    /\ ss_args.device_name = "auto"
    /\ ss_env.exist = {"rocm", "cuda", "vulkan", "opencl"}
    /\ ss_self.device = Device("rocm", 0)

\* an unknown device name has stopped __init__ at its first step
C27_WitnessInvalid ==
    /\ ss_pc = "failed"
    /\ ss_args.device_name = "tpu"
    /\ ss_log = <<>>

(***************************************************************************)
(* SpecFrame: steps 4 and 6 of ChatModule.__init__ on the caller's objects *)
(***************************************************************************)
InitFrame ==
    /\ GenIdle
    /\ RcIdle
    /\ MgIdle
    /\ SzIdle
    /\ RsIdle
    /\ SsIdle
    /\ McIdle
    /\ LvIdle
    /\ GxIdle
    /\ TsIdle
    /\ LbIdle
    /\ fr_pc = "merge"
    /\ fr_call \in [user_chat_config : UserChatConfigs, json_object : JsonObjects]
    /\ fr_object = fr_call.user_chat_config
    /\ fr_file = fr_call.json_object
    /\ fr_final = None
    /\ fr_json_str = None

\* 4. self.chat_config = _get_chat_config(self.config_file_path, chat_config)
Frame_merge ==
    /\ fr_pc = "merge"
    /\ fr_final' = GetChatConfig(fr_file, fr_object)
    /\ fr_object' = UserChatConfigAfterGet(fr_file, fr_object)
    /\ fr_file' = ConfigFileAfterGet(fr_file)
    /\ fr_pc' = "serialize"
    /\ UNCHANGED <<fr_call, fr_json_str, gen_vars, rc_vars, mg_vars, sz_vars, rs_vars,
                   ss_vars, mc_vars, lv_vars, gx_vars, ts_vars, lb_vars>>

\* 6. user_chat_config_json_str = _convert_chat_config_to_json_str(
\*        chat_config, self.chat_config.conv_template)
Frame_serialize ==
    /\ fr_pc = "serialize"
    /\ fr_json_str' = ConvertChatConfigToJsonStr(fr_object, fr_final["conv_template"])
    /\ fr_object' = ChatConfigAfterConvert(fr_object, fr_final["conv_template"])
    /\ fr_pc' = "done"
    /\ UNCHANGED <<fr_call, fr_file, fr_final, gen_vars, rc_vars, mg_vars, sz_vars, rs_vars,
                   ss_vars, mc_vars, lv_vars, gx_vars, ts_vars, lb_vars>>

NextFrame == Frame_merge \/ Frame_serialize

SpecFrame == InitFrame /\ [][NextFrame]_vars

\* the override as the caller passed it
PassedOverride == fr_call.user_chat_config

\* the template name the merge resolved: the override's when it sets one,
\* the document's otherwise
ResolvedTemplateName ==
    IF PassedOverride # None /\ PassedOverride["conv_template"] # None
    THEN PassedOverride["conv_template"]
    ELSE ChatConfig(fr_call.json_object)["conv_template"]

(***************************************************************************)
(* C28: after the merge the caller's override and the config document are  *)
(* as they were passed; after the serialization the override differs from  *)
(* what was passed in no top-level field other than conv_template, so in   *)
(* no field of its conv_config either, its conv_template is the resolved   *)
(* template name, and the document is still as it was.                     *)
(***************************************************************************)
C28_OverrideFrame ==
    /\ fr_pc \in {"serialize", "done"} => fr_file = fr_call.json_object
    /\ fr_pc = "serialize" => fr_object = PassedOverride
    /\ fr_pc = "done" =>
           /\ (PassedOverride = None) = (fr_object = None)
           /\ PassedOverride # None =>
                  /\ \A f \in Range(ChatConfigFields) \ {"conv_template"} :
                         fr_object[f] = PassedOverride[f]
                  /\ PassedOverride["conv_config"] # None =>
                         \A g \in Range(ConvConfigFields) :
                             fr_object["conv_config"][g] = PassedOverride["conv_config"][g]
                  /\ fr_object["conv_template"] = ResolvedTemplateName

\* an override with temperature and a conv_config system prompt set and
\* conv_template unset has been merged and serialized: the object now names
\* the document's template
C28_Witness ==
    /\ fr_pc = "done"
    /\ PassedOverride # None
    /\ PassedOverride["conv_template"] = None
    /\ PassedOverride["temperature"] = Value("user")
    /\ PassedOverride["top_p"] = None
    /\ PassedOverride["conv_config"] # None
    /\ PassedOverride["conv_config"]["system"] = Value("user")
    /\ fr_object["conv_template"] = DocValue
    /\ fr_final["top_p"] = DocValue

====
